---- MODULE Spec2Model ----
(***************************************************************************)
(* RsaSignature2017 (Linked Data Signatures) as implemented by the crate   *)
(* rsa-signature-2017: the options dataset, the Create Verify Hash         *)
(* algorithm, and the sign / verify protocol built on it.                  *)
(*                                                                         *)
(* Text is a sequence of code points.  Values below 128 are ASCII; a value *)
(* from 256 up stands for one whole fixed string of Symbols (an IRI, a     *)
(* caller-supplied literal), so equal strings have equal codes.            *)
(***************************************************************************)
EXTENDS Integers, Sequences, FiniteSets, TLC

\* ------------------------------------------------------------------ bounds

\* The largest number of quads of a target dataset.
MaxQuads == 1
\* The clock shows at most this many ticks.
MaxTime == 1

\* -------------------------------------------------------------------- text

Symbols ==
  << "http://purl.org/dc/terms/created",
     "http://purl.org/dc/terms/creator",
     "https://w3id.org/security#domain",
     "https://w3id.org/security#nonce",
     "http://www.w3.org/2001/XMLSchema#dateTime",
     "http://www.w3.org/2001/XMLSchema#string",
     "b0",
     "c14n0",
     "https://example.com/#me",
     "2024-01-01T00:00:00Z",
     "https://w3id.org/security#assertionMethod",
     "deadbeef12345678",
     "http://www.w3.org/1999/02/22-rdf-syntax-ns#type",
     "https://www.w3.org/ns/activitystreams#Note",
     "https://www.w3.org/ns/activitystreams#content",
     "Hello, world!",
     "Bye",
     "x",
     "signature",
     "type",
     "id",
     "signatureValue",
     "@context",
     "@id",
     "@graph",
     "RsaSignature2017",
     "created",
     "creator",
     "nonce",
     "domain",
     "content",
     "attachment",
     "b1",
     "https://w3id.org/security/v1",
     "https://w3id.org/identity/v1",
     "https://example.com/unknown-context",
     "https://w3id.org/security#signatureValue",
     "https://w3id.org/security#signature",
     "https://example.com/#sig",
     "https://example.com/#key",
     "http://w3id.org/security/v1",
     "http://w3id.org/identity/v1",
     "https://w3id.org/security/v2",
     "https://w3id.org/security/v1/",
     "https://www.w3.org/ns/activitystreams",
     "application/ld+json",
     "identity-v1.jsonld",
     "security-v1.jsonld",
     "fetched.jsonld" >>

\* The text of a fixed string: one code point from 256 up.
Str(s) == << 255 + (CHOOSE i \in 1..Len(Symbols) : Symbols[i] = s) >>

\* hex::encode: two lowercase hexadecimal digits per byte.
HexDigit(n) == IF n < 10 THEN 48 + n ELSE 87 + n
HexEncode(bytes) ==
  [i \in 1..(2 * Len(bytes)) |->
     IF i % 2 = 1 THEN HexDigit(bytes[(i + 1) \div 2] \div 16)
     ELSE HexDigit(bytes[i \div 2] % 16)]

\* base64 URL_SAFE alphabet: A-Z a-z 0-9 - _
Base64UrlChar(v) ==
  IF v < 26 THEN 65 + v
  ELSE IF v < 52 THEN 97 + (v - 26)
  ELSE IF v < 62 THEN 48 + (v - 52)
  ELSE IF v = 62 THEN 45 ELSE 95

\* URL_SAFE_NO_PAD.encode: 3 bytes give 4 characters; a tail of 1 or 2 bytes
\* gives 2 or 3 characters and no '=' padding.
Base64UrlNoPad(bytes) ==
  LET n == Len(bytes)
      At(j) == IF j <= n THEN bytes[j] ELSE 0
      \* The k-th 6-bit group (from 0) of the input, padded with zero bits.
      Sextet(k) ==
        LET b == 3 * (k \div 4)
        IN  CASE k % 4 = 0 -> At(b + 1) \div 4
              [] k % 4 = 1 -> ((At(b + 1) % 4) * 16) + (At(b + 2) \div 16)
              [] k % 4 = 2 -> ((At(b + 2) % 16) * 4) + (At(b + 3) \div 64)
              [] OTHER -> At(b + 3) % 64
  IN  [i \in 1..(((n * 8) + 5) \div 6) |-> Base64UrlChar(Sextet(i - 1))]

\* A decimal number of exactly `width` digits.
RECURSIVE Digits(_, _)
Digits(n, width) ==
  IF width = 0 THEN << >> ELSE Digits(n \div 10, width - 1) \o << 48 + (n % 10) >>

\* format_iso8601_time: ISO 8601, UTC, seconds with 3 decimal digits.  The
\* time is in microseconds since the epoch.
format_iso8601_time(time) ==
  LET ms == time \div 1000
  IN  << 49, 57, 55, 48, 45, 48, 49, 45, 48, 49, 84, 48, 48, 58, 48, 48, 58 >>
        \o Digits((ms \div 1000) % 60, 2) \o << 46 >> \o Digits(ms % 1000, 3)
        \o << 90 >>

\* ----------------------------------------------------------------- SHA-256

(***************************************************************************)
(* Sha256 (crate sha2) keeps its interface: a streaming state that update  *)
(* feeds, a 32-byte output, and finalize_reset that returns the output and *)
(* puts the state back to the initial one.  The compression function is    *)
(* replaced by two polynomial lanes of 24 bits; the first six bytes of the *)
(* output hold both lanes, so the output determines them.                  *)
(***************************************************************************)
Sha256Default == [a |-> 7, b |-> 11, len |-> 0]

\* One input byte absorbed.
Sha256Round(h, byte) ==
  [a   |-> ((h.a * 31) + byte) % 16777213,
   b   |-> ((h.b * 37) + byte + 1) % 16777199,
   len |-> (h.len + 1) % 256]

RECURSIVE Sha256Update(_, _)
\* Digest::update: the bytes absorbed in order.  update(x ++ y) is update(x)
\* then update(y); the input is halved so that the evaluation stays shallow,
\* and the state after the first half is computed before the second is begun.
Sha256Update(h, bytes) ==
  IF Len(bytes) = 0 THEN h
  ELSE IF Len(bytes) = 1 THEN Sha256Round(h, bytes[1])
  ELSE LET mid == Len(bytes) \div 2
           first == Sha256Update(h, SubSeq(bytes, 1, mid))
       IN  IF first.len >= 0
           THEN Sha256Update(first, SubSeq(bytes, mid + 1, Len(bytes)))
           ELSE first

Sha256Finalize(h) ==
  [i \in 1..32 |->
     CASE i = 1 -> h.a \div 65536
       [] i = 2 -> (h.a \div 256) % 256
       [] i = 3 -> h.a % 256
       [] i = 4 -> h.b \div 65536
       [] i = 5 -> (h.b \div 256) % 256
       [] i = 6 -> h.b % 256
       [] i = 7 -> h.len
       [] OTHER -> (((h.a % 251) * i) + ((h.b % 241) * (i + 3))) % 256]

\* Sha256::digest: the output for one whole input.
Sha256Digest(bytes) == Sha256Finalize(Sha256Update(Sha256Default, bytes))

\* --------------------------------------------------------------------- RDF

\* Option<&str>
None == [some |-> FALSE, v |-> << >>]
Some(v) == [some |-> TRUE, v |-> v]

\* sophia_api::term: the kinds of term a dataset can hold.  A variable is a
\* generalized-RDF term.  A quad in the default graph has graph name NoGraph.
BnodeId(id) == [kind |-> "bnode", value |-> id, datatype |-> << >>]
IriRef(iri) == [kind |-> "iri", value |-> iri, datatype |-> << >>]
LiteralDatatype(lex, dt) == [kind |-> "literal", value |-> lex, datatype |-> dt]
\* `impl Term for &str`: a literal of datatype xsd:string.
XSD_STRING == Str("http://www.w3.org/2001/XMLSchema#string")
StrTerm(lex) == LiteralDatatype(lex, XSD_STRING)
Variable(name) == [kind |-> "variable", value |-> name, datatype |-> << >>]
NoGraph == [kind |-> "default", value |-> << >>, datatype |-> << >>]

Quad(s, p, o, g) == [s |-> s, p |-> p, o |-> o, g |-> g]

\* An item of SetDataset::quads() that is Err(e): the backend failed.
BackendError == Quad(NoGraph, NoGraph, NoGraph, [NoGraph EXCEPT !.kind = "error"])

\* The quads of a dataset given as the sequence its iterator yields.
QuadSet(ds) == {ds[i] : i \in 1..Len(ds)}

\* MutableDataset::insert on a set dataset: a quad already there is not added.
Insert(ds, q) == IF q \in QuadSet(ds) THEN ds ELSE Append(ds, q)

\* The first label that RDFC-1.0 issues to a blank node.
C14N0 == Str("c14n0")

\* One term in N-Quads syntax.  rdfc10 relabels blank nodes; every dataset of
\* the model has at most one blank node, which gets the first canonical label.
NQTerm(t) ==
  CASE t.kind = "bnode" -> << 95, 58 >> \o C14N0
    [] t.kind = "iri" -> << 60 >> \o t.value \o << 62 >>
    [] t.kind = "literal" ->
         << 34 >> \o t.value \o << 34 >>
           \o (IF t.datatype = XSD_STRING
               THEN << >>
               ELSE << 94, 94, 60 >> \o t.datatype \o << 62 >>)
    [] OTHER -> << >>

\* One quad as a line of canonical N-Quads.
NQLine(q) ==
  NQTerm(q.s) \o << 32 >> \o NQTerm(q.p) \o << 32 >> \o NQTerm(q.o) \o << 32 >>
    \o (IF q.g.kind = "default" THEN << >> ELSE NQTerm(q.g) \o << 32 >>)
    \o << 46, 10 >>

RECURSIVE LexLess(_, _)
\* Code point order of two texts.
LexLess(x, y) ==
  IF y = << >> THEN FALSE
  ELSE IF x = << >> THEN TRUE
  ELSE IF Head(x) # Head(y) THEN Head(x) < Head(y)
  ELSE LexLess(Tail(x), Tail(y))

RECURSIVE SortedLines(_)
\* The lines of a set in code point order, concatenated.
SortedLines(lines) ==
  IF lines = {} THEN << >>
  ELSE LET least == CHOOSE l \in lines : \A m \in lines \ {l} : LexLess(l, m)
       IN  least \o SortedLines(lines \ {least})

\* A term RDFC-1.0 has no serialization for.
IsGeneralized(q) ==
  \E t \in {q.s, q.p, q.o, q.g} : t.kind = "variable"

\* rdfc10::normalize(dataset, write): the canonical N-Quads document of the
\* dataset written to `write`, or the C14nError that stopped it.
Normalize(ds) ==
  IF BackendError \in QuadSet(ds)
  THEN [ok |-> FALSE, err |-> "Dataset", bytes |-> << >>]
  ELSE IF \E q \in QuadSet(ds) : IsGeneralized(q)
  THEN [ok |-> FALSE, err |-> "Unsupported", bytes |-> << >>]
  ELSE [ok |-> TRUE, err |-> "",
        bytes |-> SortedLines({NQLine(q) : q \in QuadSet(ds)})]

\* ------------------------------------------------------- signature options

\* common/consts.rs
CREATED == Str("http://purl.org/dc/terms/created")
CREATOR == Str("http://purl.org/dc/terms/creator")
\* DOMAIN (a reserved word of TLA+)
DOMAIN_IRI == Str("https://w3id.org/security#domain")
NONCE == Str("https://w3id.org/security#nonce")
DATETIME == Str("http://www.w3.org/2001/XMLSchema#dateTime")
\* common.rs, SignatureOptions::to_dataset
ID == Str("b0")

\* to_dataset, had it left the creator out.
to_dataset_without_creator(options) ==
  LET d1 == Insert(<< >>,
                   Quad(BnodeId(ID), IriRef(CREATED),
                        LiteralDatatype(options.created, DATETIME), NoGraph))
      d3 == IF options.domain.some
            THEN Insert(d1, Quad(BnodeId(ID), IriRef(DOMAIN_IRI),
                                 StrTerm(options.domain.v), NoGraph))
            ELSE d1
  IN  IF options.nonce.some
      THEN Insert(d3, Quad(BnodeId(ID), IriRef(NONCE),
                           StrTerm(options.nonce.v), NoGraph))
      ELSE d3

\* common::SignatureOptions::to_dataset.  `options` is the struct
\* {created: &str, creator, domain: Option<&str>, nonce: Option<&str>}.
to_dataset(options) ==
  LET d1 == Insert(<< >>,
                   Quad(BnodeId(ID), IriRef(CREATED),
                        LiteralDatatype(options.created, DATETIME), NoGraph))
      d2 == Insert(d1, Quad(BnodeId(ID), IriRef(CREATOR),
                            IriRef(options.creator), NoGraph))
      d3 == IF options.domain.some
            THEN Insert(d2, Quad(BnodeId(ID), IriRef(DOMAIN_IRI),
                                 StrTerm(options.domain.v), NoGraph))
            ELSE d2
      d4 == IF options.nonce.some
            THEN Insert(d3, Quad(BnodeId(ID), IriRef(NONCE),
                                 StrTerm(options.nonce.v), NoGraph))
            ELSE d3
  IN  d4

\* signature_options.rs, the constants local to SignatureOptions::to_dataset
SO_CREATED == Str("http://purl.org/dc/terms/created")
SO_CREATOR == Str("http://purl.org/dc/terms/creator")
SO_DOMAIN == Str("https://w3id.org/security#domain")
SO_NONCE == Str("https://w3id.org/security#nonce")
SO_DATETIME == Str("http://www.w3.org/2001/XMLSchema#dateTime")
SO_ID == Str("b0")

\* SignatureOptions::to_dataset, had it left the domain out.
SO_to_dataset_without_domain(self, time) ==
  LET created_owned == IF self.created.some THEN None
                       ELSE Some(format_iso8601_time(time))
      created == IF self.created.some THEN self.created.v ELSE created_owned.v
      d1 == Insert(<< >>,
                   Quad(BnodeId(SO_ID), IriRef(SO_CREATED),
                        LiteralDatatype(created, SO_DATETIME), NoGraph))
      d2 == Insert(d1, Quad(BnodeId(SO_ID), IriRef(SO_CREATOR),
                            IriRef(self.creator), NoGraph))
      d4 == IF self.nonce.some
            THEN Insert(d2, Quad(BnodeId(SO_ID), IriRef(SO_NONCE),
                                 StrTerm(self.nonce.v), NoGraph))
            ELSE d2
  IN  [dataset |-> d4, created |-> created_owned,
       clock_reads |-> IF self.created.some THEN 0 ELSE 1]

\* SignatureOptions::to_dataset, had it read the clock whether or not
\* `created` is supplied.
SO_to_dataset_reading_clock(self, time) ==
  LET created_owned == Some(format_iso8601_time(time))
      created == IF self.created.some THEN self.created.v ELSE created_owned.v
      d1 == Insert(<< >>,
                   Quad(BnodeId(SO_ID), IriRef(SO_CREATED),
                        LiteralDatatype(created, SO_DATETIME), NoGraph))
      d2 == Insert(d1, Quad(BnodeId(SO_ID), IriRef(SO_CREATOR),
                            IriRef(self.creator), NoGraph))
      d3 == IF self.domain.some
            THEN Insert(d2, Quad(BnodeId(SO_ID), IriRef(SO_DOMAIN),
                                 StrTerm(self.domain.v), NoGraph))
            ELSE d2
      d4 == IF self.nonce.some
            THEN Insert(d3, Quad(BnodeId(SO_ID), IriRef(SO_NONCE),
                                 StrTerm(self.nonce.v), NoGraph))
            ELSE d3
  IN  [dataset |-> d4, created |-> created_owned, clock_reads |-> 1]

\* signature_options::SignatureOptions::to_dataset.  `self` is the struct
\* {created: Option<&str>, creator, domain, nonce}; `time` is what
\* SystemTime::now() returns if it is called.  The result is the pair
\* (dataset, created_owned), with the number of reads of the clock.
SO_to_dataset(self, time) ==
  LET created_owned == IF self.created.some THEN None
                       ELSE Some(format_iso8601_time(time))
      created == IF self.created.some THEN self.created.v ELSE created_owned.v
      d1 == Insert(<< >>,
                   Quad(BnodeId(SO_ID), IriRef(SO_CREATED),
                        LiteralDatatype(created, SO_DATETIME), NoGraph))
      d2 == Insert(d1, Quad(BnodeId(SO_ID), IriRef(SO_CREATOR),
                            IriRef(self.creator), NoGraph))
      d3 == IF self.domain.some
            THEN Insert(d2, Quad(BnodeId(SO_ID), IriRef(SO_DOMAIN),
                                 StrTerm(self.domain.v), NoGraph))
            ELSE d2
      d4 == IF self.nonce.some
            THEN Insert(d3, Quad(BnodeId(SO_ID), IriRef(SO_NONCE),
                                 StrTerm(self.nonce.v), NoGraph))
            ELSE d3
  IN  [dataset |-> d4, created |-> created_owned,
       clock_reads |-> IF self.created.some THEN 0 ELSE 1]

\* ------------------------------------------------------ create verify hash

\* Sha256::finalize on a hasher that is then used again without a reset.
finalize_without_reset(h) == [output |-> Sha256Finalize(h), state |-> h]

\* Sha256::finalize_reset: the output, and the state put back to the initial one.
finalize_reset(h) == [output |-> Sha256Finalize(h), state |-> Sha256Default]

\* Hashers that outlive the call, had create_verify_hash kept them.
stale_hashers(old_to_be_signed, old_hasher) ==
  [to_be_signed |-> old_to_be_signed, hasher |-> old_hasher]

\* common::create_verify_hash, the two hashers it creates on entry
\* (`to_be_signed` and `hasher`); the arguments are whatever an earlier call left.
new_hashers(old_to_be_signed, old_hasher) ==
  [to_be_signed |-> Sha256Default, hasher |-> Sha256Default]

\* hash_canonicalized_options_document, had it dropped the error of normalize.
hash_options_ignoring_failure(options, tbs, h) ==
  LET c14n == Normalize(options)
      out == finalize_reset(Sha256Update(h, c14n.bytes))
  IN  [ok |-> TRUE, err |-> "",
       to_be_signed |-> Sha256Update(tbs, HexEncode(out.output)),
       hasher |-> out.state]

\* common::create_verify_hash::hash_canonicalized_options_document
hash_canonicalized_options_document(options, tbs, h) ==
  LET c14n == Normalize(options)
      fed == Sha256Update(h, c14n.bytes)
      out == finalize_reset(fed)
  IN  IF ~c14n.ok
      THEN [ok |-> FALSE, err |-> c14n.err, to_be_signed |-> tbs, hasher |-> fed]
      ELSE [ok |-> TRUE, err |-> "",
            to_be_signed |-> Sha256Update(tbs, HexEncode(out.output)),
            hasher |-> out.state]

\* finalize, had it fed the document digest itself, not its hex encoding.
finalize_raw_digest(tbs, document_hasher) ==
  LET digest == Sha256Finalize(document_hasher)
  IN  Sha256Finalize(Sha256Update(tbs, digest))

\* common::create_verify_hash::finalize
finalize(tbs, document_hasher) ==
  LET digest == Sha256Finalize(document_hasher)
  IN  Sha256Finalize(Sha256Update(tbs, HexEncode(digest)))

\* common::create_verify_hash as a whole: Either<dataset error, options error>
\* or the output.
create_verify_hash(dataset, options) ==
  LET h == new_hashers(Sha256Default, Sha256Default)
      o == hash_canonicalized_options_document(options, h.to_be_signed, h.hasher)
      c14n == Normalize(dataset)
  IN  IF ~o.ok THEN [ok |-> FALSE, err |-> "Right", output |-> << >>]
      ELSE IF ~c14n.ok THEN [ok |-> FALSE, err |-> "Left", output |-> << >>]
      ELSE [ok |-> TRUE, err |-> "",
            output |-> finalize(o.to_be_signed, Sha256Update(o.hasher, c14n.bytes))]

\* signature_options::SignatureOptions::create_verify_hash, its two hashers
SO_new_hashers(old_to_be_signed, old_hasher) ==
  [to_be_signed |-> Sha256Default, hasher |-> Sha256Default]

\* signature_options::SignatureOptions::hash_canonicalized_options_document:
\* normalize(..).unwrap() panics if the options dataset does not canonicalize.
SO_hash_canonicalized_options_document(self, tbs, h, time) ==
  LET built == SO_to_dataset(self, time)
      c14n == Normalize(built.dataset)
      out == finalize_reset(Sha256Update(h, c14n.bytes))
  IN  [panic |-> ~c14n.ok,
       options |-> built.dataset,
       created |-> built.created,
       clock_reads |-> built.clock_reads,
       to_be_signed |-> Sha256Update(tbs, HexEncode(out.output)),
       hasher |-> out.state]

\* finalize that writes the digest itself, not its hex form.
SO_finalize_raw_digest(tbs, document_hasher) ==
  LET digest == Sha256Finalize(document_hasher)
  IN  Sha256Finalize(Sha256Update(tbs, digest))

\* signature_options::SignatureOptions::finalize
SO_finalize(tbs, document_hasher) ==
  LET digest == Sha256Finalize(document_hasher)
  IN  Sha256Finalize(Sha256Update(tbs, HexEncode(digest)))

\* ------------------------------------------------------------- randomness

\* A generator (RngCore): the stream of a seed, and the position in it.
RngBytes(seed, pos, n) ==
  [i \in 1..n |-> ((seed * 37) + ((pos + i) * 101)) % 256]

\* RngCore::fill_bytes: the next n bytes, and the generator advanced.
fill_bytes(rng, n) ==
  [bytes |-> RngBytes(rng.seed, rng.pos, n),
   rng |-> [rng EXCEPT !.pos = @ + n]]

\* util/crypto.rs, gen_nonce
ENCODED_LEN == 20

\* gen_nonce, had its buffer been as long as the encoded nonce.
gen_nonce_of_encoded_len_bytes(rng) ==
  LET drawn == fill_bytes(rng, ENCODED_LEN)
  IN  [nonce |-> Base64UrlNoPad(drawn.bytes), rng |-> drawn.rng,
       drawn |-> Len(drawn.bytes)]

\* util::gen_nonce
gen_nonce(rng) ==
  LET drawn == fill_bytes(rng, (ENCODED_LEN * 3) \div 4)
  IN  [nonce |-> Base64UrlNoPad(drawn.bytes), rng |-> drawn.rng,
       drawn |-> Len(drawn.bytes)]

\* --------------------------------------------------------------------- RSA

(***************************************************************************)
(* The rsa crate, symbolically: a key is its modulus n (a name) and the    *)
(* size of n in bytes; the signature EM^d mod n is the pair (n, EM), and   *)
(* raising it to e modulo the same n gives EM back, while another modulus  *)
(* gives something else.  The PKCS#1 v1.5 encoding EM is computed in full. *)
(***************************************************************************)

\* Pkcs1v15Sign::new::<Sha256>(): the DigestInfo prefix and the hash length.
Pkcs1v15Sign_Sha256 ==
  [hash_len |-> 32,
   prefix |-> << 48, 49, 48, 13, 6, 9, 96, 134, 72, 1, 101, 3, 4, 2, 1, 5, 0, 4, 32 >>]

\* EMSA-PKCS1-v1_5: 00 01 FF..FF 00 prefix hashed, k bytes long.
pkcs1v15_sign_pad(prefix, hashed, k) ==
  LET t_len == Len(prefix) + Len(hashed)
  IN  IF k < t_len + 11
      THEN [ok |-> FALSE, err |-> "MessageTooLong", em |-> << >>]
      ELSE [ok |-> TRUE, err |-> "",
            em |-> << 0, 1 >> \o [i \in 1..(k - t_len - 3) |-> 255] \o << 0 >>
                     \o prefix \o hashed]

NoSignatureValue == [n |-> 0, em |-> << >>]

\* RsaPrivateKey::sign_with_rng(rng, padding, hashed); blinding draws from rng.
sign_with_rng(key, padding, hashed) ==
  LET padded == pkcs1v15_sign_pad(padding.prefix, hashed, key.size)
  IN  IF Len(hashed) # padding.hash_len
      THEN [ok |-> FALSE, err |-> "InputNotHashed", signature |-> NoSignatureValue,
            drawn |-> 0]
      ELSE IF ~padded.ok
      THEN [ok |-> FALSE, err |-> padded.err, signature |-> NoSignatureValue,
            drawn |-> 0]
      ELSE [ok |-> TRUE, err |-> "", signature |-> [n |-> key.n, em |-> padded.em],
            drawn |-> key.size]

\* A verification that does not look at the digest.
rsa_verify_any_digest(key, padding, hashed, signature) ==
  Len(signature.em) = key.size /\ signature.n = key.n

\* RsaPublicKey::verify(padding, hashed, signature)
rsa_verify(key, padding, hashed, signature) ==
  LET expected == pkcs1v15_sign_pad(padding.prefix, hashed, key.size)
      em == IF signature.n = key.n THEN signature.em
            ELSE [i \in 1..Len(signature.em) |-> 0]
  IN  Len(signature.em) = key.size
        /\ Len(hashed) = padding.hash_len
        /\ expected.ok
        /\ em = expected.em

\* ------------------------------------------------------------------ inputs

Q_type ==
  Quad(BnodeId(Str("b0")),
       IriRef(Str("http://www.w3.org/1999/02/22-rdf-syntax-ns#type")),
       IriRef(Str("https://www.w3.org/ns/activitystreams#Note")), NoGraph)
Q_content ==
  Quad(BnodeId(Str("b0")),
       IriRef(Str("https://www.w3.org/ns/activitystreams#content")),
       StrTerm(Str("Hello, world!")), NoGraph)
Q_bye ==
  Quad(BnodeId(Str("b0")),
       IriRef(Str("https://www.w3.org/ns/activitystreams#content")),
       StrTerm(Str("Bye")), NoGraph)
\* A quad of generalized RDF: its subject is a variable.
Q_generalized ==
  Quad(Variable(Str("x")),
       IriRef(Str("https://www.w3.org/ns/activitystreams#content")),
       StrTerm(Str("Bye")), NoGraph)

PlainQuads == << Q_type, Q_content, Q_bye >>

\* The target datasets that canonicalize: up to MaxQuads of the plain quads.
PlainDatasets ==
  LET picks == UNION {[1..n -> 1..Len(PlainQuads)] : n \in 0..MaxQuads}
      rising == {f \in picks : \A i \in 1..(Len(f) - 1) : f[i] < f[i + 1]}
  IN  {[i \in 1..Len(f) |-> PlainQuads[f[i]]] : f \in rising}

\* Datasets whose canonicalization fails: a backend that fails while it is
\* iterated, and a dataset holding a generalized quad.
FailingDatasets == { << BackendError >>, << Q_type, Q_generalized >> }

\* Every order in which a set of quads may be inserted and iterated.
Orders(quads) ==
  {f \in [1..Cardinality(quads) -> quads] :
     \A i, j \in 1..Cardinality(quads) : i # j => f[i] # f[j]}

DatasetInputs == PlainDatasets \cup FailingDatasets

CreatorInputs == { Str("https://example.com/#me") }
CreatedInputs == { None, Some(Str("2024-01-01T00:00:00Z")) }
DomainInputs == { None, Some(Str("https://w3id.org/security#assertionMethod")) }

\* SignOptions.nonce: Option<Option<&str>>
NonceUnset == [set |-> FALSE, some |-> FALSE, v |-> << >>]
NonceOmit == [set |-> TRUE, some |-> FALSE, v |-> << >>]
NonceLiteral(v) == [set |-> TRUE, some |-> TRUE, v |-> v]
NonceInputs ==
  { NonceUnset, NonceOmit, NonceLiteral(<< >>), NonceLiteral(Str("deadbeef12345678")) }

\* SignOptions.rng: Option<&mut R>, a generator the caller injects
NoRng == [some |-> FALSE, seed |-> 0]
RngInputs == { NoRng, [some |-> TRUE, seed |-> 3] }
\* What rand::thread_rng() may produce.
ThreadSeeds == { 5, 9 }

\* The 512-bit key of the round-trip test, a key too short for the padding
\* (PKCS#1 v1.5 with SHA-256 needs 62 bytes), and an unrelated key.
TestKey == [n |-> 1, size |-> 64]
ShortKey == [n |-> 2, size |-> 61]
OtherKey == [n |-> 3, size |-> 64]
NoKey == [n |-> 0, size |-> 0]
SignKeyInputs == { TestKey, ShortKey }
VerifyKeyInputs == { TestKey, OtherKey }

\* <RsaPrivateKey as AsRef<RsaPublicKey>>::as_ref: the public half of the key
as_ref(key) == [n |-> key.n, size |-> key.size]

\* The options the round-trip test builds from a Signature (lib.rs).
OptionsOf(sg) ==
  [created |-> sg.created, creator |-> sg.creator, domain |-> sg.domain,
   nonce |-> sg.nonce]

\* The options datasets a verifier is given for a Signature: the one built
\* from it, one with the nonce altered, and one that does not canonicalize.
OptionsInputs(sg) ==
  { to_dataset(OptionsOf(sg)),
    to_dataset([OptionsOf(sg) EXCEPT
                  !.nonce = IF @.some THEN None ELSE Some(Str("x"))]),
    << BackendError >> }

\* ------------------------------------------------------------------- state

VARIABLES
  now,           \* the system clock when it was last read, in ticks
  pc,            \* where the call in flight stands
  call,          \* the arguments of the last call begun
  to_be_signed,  \* create_verify_hash: the hasher of the output
  hasher,        \* create_verify_hash: the reused hasher
  loc,           \* the other locals of the call, and the steps it has taken
  ret,           \* what the last call returned
  signature,     \* the Signature the caller holds, and what it signs
  kept           \* an output of create_verify_hash the caller kept

vars == << now, pc, call, to_be_signed, hasher, loc, ret, signature, kept >>

\* SystemTime::now(): the clock never shows less than it last did.
ClockReadings == now..MaxTime
\* A reading in microseconds since the epoch; one tick is 1500 microseconds.
SystemTime(tick) == tick * 1500

NoCall ==
  [op |-> "none", dataset |-> << >>, created |-> None, domain |-> None,
   nonce |-> NonceUnset, rng |-> NoRng, key |-> NoKey, creator |-> << >>,
   options |-> << >>, signature_value |-> NoSignatureValue]

\* No generator at hand (the handle of thread_rng is dropped after each use).
NoGenerator == [src |-> "none", seed |-> 0, pos |-> 0]

NoLocals ==
  [nonce |-> None, options |-> << >>, created |-> None, digest |-> << >>,
   rng |-> NoGenerator, clock_reads |-> 0, draws |-> << >>, trace |-> << >>]

NoRet == [op |-> "none", status |-> "none", err |-> "", kind |-> ""]

NoSignature ==
  [present |-> FALSE, created |-> << >>, creator |-> << >>, domain |-> None,
   nonce |-> None, signature_value |-> NoSignatureValue,
   dataset |-> << >>, options |-> << >>, digest |-> << >>, key |-> NoKey]

NoOutput == [present |-> FALSE, dataset |-> {}, options |-> {}, output |-> << >>]

Init ==
  /\ now = 0
  /\ pc = "idle"
  /\ call = NoCall
  /\ to_be_signed = Sha256Default
  /\ hasher = Sha256Default
  /\ loc = NoLocals
  /\ ret = NoRet
  /\ signature = NoSignature
  /\ kept = NoOutput

\* The call has returned (or panicked): its locals are dropped, and the caller
\* moves on.  The caller keeps the Signature it holds.
Forget ==
  /\ pc = "done"
  /\ pc' = "idle"
  /\ call' = NoCall
  /\ loc' = NoLocals
  /\ ret' = NoRet
  /\ to_be_signed' = Sha256Default
  /\ hasher' = Sha256Default
  /\ UNCHANGED << now, signature, kept >>

\* The caller discards the Signature it holds; it holds at most one.
Discard ==
  /\ pc = "idle"
  /\ signature.present
  /\ signature' = NoSignature
  /\ UNCHANGED << now, pc, call, to_be_signed, hasher, loc, ret, kept >>

\* -------------------------------------------------------------------- sign

\* sign_rsa_signature_2017, the match on self.nonce.  `rng` is the generator
\* that is drawn from if a nonce has to be generated.
resolve_nonce(nonce, rng) ==
  IF nonce.set
  THEN [nonce |-> IF nonce.some THEN Some(nonce.v) ELSE None,
        rng |-> rng, draws |-> << >>]
  ELSE LET g == gen_nonce(rng)
       IN  [nonce |-> Some(g.nonce), rng |-> g.rng,
            draws |-> << [src |-> rng.src, what |-> "nonce", n |-> g.drawn] >>]

\* A choice of generator that takes the thread-local one whatever the caller
\* injected.
pick_thread_rng(injected, at, thread_seed) ==
  [src |-> "thread", seed |-> thread_seed, pos |-> 0]

\* sign_rsa_signature_2017, `if let Some(rng) = self.rng.as_deref_mut()`: the
\* generator used, the injected one if there is one and thread_rng() if not.
pick_rng(injected, at, thread_seed) ==
  IF injected.some
  THEN [src |-> "injected", seed |-> injected.seed, pos |-> at]
  ELSE [src |-> "thread", seed |-> thread_seed, pos |-> 0]

\* The SignatureOptions value that sign_rsa_signature_2017 builds.
SignatureOptionsOf(c, nonce) ==
  [created |-> c.created, creator |-> c.creator, domain |-> c.domain,
   nonce |-> nonce]

\* SignOptions::sign_rsa_signature_2017 is entered: the nonce is resolved, the
\* SignatureOptions built, and create_verify_hash entered (its hashers made).
SignEntered(dataset, key, creator, created, domain, nonce, rng) ==
  /\ pc = "idle"
  /\ \E thread_seed \in ThreadSeeds :
       LET r == resolve_nonce(nonce, pick_rng(rng, 0, thread_seed))
           h == SO_new_hashers(to_be_signed, hasher)
       IN  /\ call' = [NoCall EXCEPT !.op = "sign", !.dataset = dataset,
                         !.key = key, !.creator = creator, !.created = created,
                         !.domain = domain, !.nonce = nonce, !.rng = rng]
           /\ loc' = [NoLocals EXCEPT !.nonce = r.nonce, !.draws = r.draws,
                        !.rng = IF rng.some THEN r.rng ELSE NoGenerator]
           /\ to_be_signed' = h.to_be_signed
           /\ hasher' = h.hasher
  /\ pc' = "sign_hash_options"
  /\ ret' = NoRet
  /\ UNCHANGED << now, signature, kept >>

\* A caller without a Signature signs.
Sign(dataset, key, creator, created, domain, nonce, rng) ==
  /\ ~signature.present
  /\ SignEntered(dataset, key, creator, created, domain, nonce, rng)

\* The created, the nonce and the generator a caller gave to a call.
GivenToCall(c) ==
  [present |-> TRUE, dataset |-> {}, options |-> {}, output |-> << >>,
   created |-> c.created, nonce |-> c.nonce, rng |-> c.rng]

\* A caller takes the Signature a call returned and keeps what it gave to
\* the call.
Remember ==
  /\ pc = "done"
  /\ ret.status = "Ok"
  /\ pc' = "idle"
  /\ call' = NoCall
  /\ loc' = NoLocals
  /\ ret' = NoRet
  /\ to_be_signed' = Sha256Default
  /\ hasher' = Sha256Default
  /\ kept' = GivenToCall(call)
  /\ UNCHANGED << now, signature >>

\* A caller that holds a Signature signs again what it signed, with the
\* nonce setting and the generator stream it gave before.
SignAgain(created) ==
  /\ signature.present
  /\ kept.present
  /\ SignEntered(signature.dataset, signature.key, signature.creator, created,
                 signature.domain, kept.nonce, kept.rng)

\* SignatureOptions::hash_canonicalized_options_document, called by
\* create_verify_hash.
SignHashOptions ==
  /\ pc = "sign_hash_options"
  /\ \E tick \in ClockReadings :
       LET r == SO_hash_canonicalized_options_document(
                  SignatureOptionsOf(call, loc.nonce), to_be_signed, hasher,
                  SystemTime(tick))
       IN  /\ now' = IF r.clock_reads > 0 THEN tick ELSE now
           /\ loc' = [loc EXCEPT !.options = r.options, !.created = r.created,
                        !.clock_reads = @ + r.clock_reads,
                        !.trace = @ \o (IF r.panic THEN << "options_c14n_failed" >>
                                        ELSE << "options_c14n", "options_hex" >>)]
           /\ IF r.panic
              THEN /\ pc' = "done"
                   /\ ret' = [op |-> "sign", status |-> "Panic", err |-> "",
                              kind |-> "normalize"]
                   /\ UNCHANGED << to_be_signed, hasher >>
              ELSE /\ pc' = "sign_normalize"
                   /\ to_be_signed' = r.to_be_signed
                   /\ hasher' = r.hasher
                   /\ UNCHANGED ret
  /\ UNCHANGED << call, signature, kept >>

\* SignatureOptions::create_verify_hash, the rest: the target dataset is
\* canonicalized into `hasher`; a C14nError returns Err from sign (the `?`),
\* otherwise finalize gives the digest.
SignNormalizeDataset ==
  /\ pc = "sign_normalize"
  /\ LET c14n == Normalize(call.dataset)
         fed == Sha256Update(hasher, c14n.bytes)
     IN  IF ~c14n.ok
         THEN /\ pc' = "done"
              /\ ret' = [op |-> "sign", status |-> "Err", err |-> c14n.err,
                         kind |-> c14n.err]
              /\ loc' = [loc EXCEPT !.trace = Append(@, "dataset_c14n_failed")]
              /\ UNCHANGED hasher
         ELSE /\ pc' = "sign_rsa"
              /\ hasher' = fed
              /\ loc' = [loc EXCEPT !.digest = SO_finalize(to_be_signed, fed),
                           !.trace = Append(@, "dataset_c14n")]
              /\ UNCHANGED ret
  /\ UNCHANGED << now, call, to_be_signed, signature, kept >>

\* sign_rsa_signature_2017, `created.map(Cow::Owned).unwrap_or_else(||
\* Cow::Borrowed(self.created.unwrap()))`
resolve_created(returned, supplied) ==
  IF returned.some THEN [panic |-> FALSE, v |-> returned.v]
  ELSE IF supplied.some THEN [panic |-> FALSE, v |-> supplied.v]
  ELSE [panic |-> TRUE, v |-> << >>]

\* sign_rsa_signature_2017, the rest: created is resolved, the digest signed
\* (`.unwrap()` on the result) and the Signature returned.
SignRsa ==
  /\ pc = "sign_rsa"
  /\ LET created == resolve_created(loc.created, call.created)
         rng == pick_rng(call.rng, loc.rng.pos, 0)
         signed == sign_with_rng(call.key, Pkcs1v15Sign_Sha256, loc.digest)
     IN  /\ loc' = [loc EXCEPT
                      !.draws = IF created.panic \/ signed.drawn = 0 THEN @
                                ELSE Append(@, [src |-> rng.src, what |-> "rsa",
                                                n |-> signed.drawn]),
                      !.rng = IF created.panic \/ ~call.rng.some THEN @
                              ELSE [@ EXCEPT !.pos = @ + signed.drawn]]
         /\ IF created.panic \/ ~signed.ok
            THEN /\ ret' = [op |-> "sign", status |-> "Panic", err |-> "",
                            kind |-> IF created.panic THEN "created" ELSE signed.err]
                 /\ UNCHANGED signature
            ELSE /\ ret' = [op |-> "sign", status |-> "Ok", err |-> "", kind |-> ""]
                 /\ signature' =
                      [present |-> TRUE, created |-> created.v,
                       creator |-> call.creator, domain |-> call.domain,
                       nonce |-> loc.nonce, signature_value |-> signed.signature,
                       dataset |-> call.dataset, options |-> loc.options,
                       digest |-> loc.digest, key |-> call.key]
  /\ pc' = "done"
  /\ UNCHANGED << now, call, to_be_signed, hasher, kept >>

\* ------------------------------------------------------------------ verify

\* verify_rsa_signature_2017 is entered and calls common::create_verify_hash,
\* which makes its hashers.
Verify(dataset, options, key, signature_value) ==
  /\ pc = "idle"
  /\ signature.present
  /\ LET h == new_hashers(to_be_signed, hasher)
     IN  /\ to_be_signed' = h.to_be_signed
         /\ hasher' = h.hasher
  /\ call' = [NoCall EXCEPT !.op = "verify", !.dataset = dataset,
                !.options = options, !.key = key,
                !.signature_value = signature_value]
  /\ loc' = [NoLocals EXCEPT !.options = options]
  /\ pc' = "verify_hash_options"
  /\ ret' = NoRet
  /\ UNCHANGED << now, signature, kept >>

\* create_verify_hash: hash_canonicalized_options_document(..)
\* .map_err(Either::Right)?, which verify maps to Error::Options.
VerifyHashOptions ==
  /\ pc = "verify_hash_options"
  /\ LET r == hash_canonicalized_options_document(call.options, to_be_signed, hasher)
     IN  /\ to_be_signed' = r.to_be_signed
         /\ hasher' = r.hasher
         /\ loc' = [loc EXCEPT
                      !.trace = @ \o (IF r.ok THEN << "options_c14n", "options_hex" >>
                                      ELSE << "options_c14n_failed" >>)]
         /\ IF ~r.ok
            THEN /\ pc' = "done"
                 /\ ret' = [op |-> "verify", status |-> "Err", err |-> "Options",
                            kind |-> r.err]
            ELSE /\ pc' = "verify_normalize"
                 /\ UNCHANGED ret
  /\ UNCHANGED << now, call, signature, kept >>

\* create_verify_hash: the target dataset is canonicalized into `hasher`; an
\* error is Either::Left, which verify maps to Error::Dataset; otherwise
\* finalize gives the digest.
VerifyNormalizeDataset ==
  /\ pc = "verify_normalize"
  /\ LET c14n == Normalize(call.dataset)
         fed == Sha256Update(hasher, c14n.bytes)
     IN  /\ hasher' = fed
         /\ IF ~c14n.ok
            THEN /\ pc' = "done"
                 /\ ret' = [op |-> "verify", status |-> "Err", err |-> "Dataset",
                            kind |-> c14n.err]
                 /\ loc' = [loc EXCEPT !.trace = Append(@, "dataset_c14n_failed")]
            ELSE /\ pc' = "verify_rsa"
                 /\ loc' = [loc EXCEPT !.digest = finalize(to_be_signed, fed),
                              !.trace = Append(@, "dataset_c14n")]
                 /\ UNCHANGED ret
  /\ UNCHANGED << now, call, to_be_signed, signature, kept >>

\* verify_rsa_signature_2017: key.verify(..).map_err(Error::Verification)
VerifyRsa ==
  /\ pc = "verify_rsa"
  /\ ret' = IF rsa_verify(call.key, Pkcs1v15Sign_Sha256, loc.digest,
                          call.signature_value)
            THEN [op |-> "verify", status |-> "Ok", err |-> "", kind |-> ""]
            ELSE [op |-> "verify", status |-> "Err", err |-> "Verification",
                  kind |-> "Verification"]
  /\ pc' = "done"
  /\ UNCHANGED << now, call, to_be_signed, hasher, loc, signature, kept >>

\* ----------------------------------------------------------- specification

Next ==
  \/ Forget
  \/ Discard
  \/ \E dataset \in DatasetInputs, key \in SignKeyInputs,
        creator \in CreatorInputs, created \in CreatedInputs,
        domain \in DomainInputs, nonce \in NonceInputs, rng \in RngInputs :
       Sign(dataset, key, creator, created, domain, nonce, rng)
  \/ SignHashOptions
  \/ SignNormalizeDataset
  \/ SignRsa
  \/ \E dataset \in DatasetInputs, options \in OptionsInputs(signature),
        key \in VerifyKeyInputs :
       Verify(dataset, options, key, signature.signature_value)
  \/ VerifyHashOptions
  \/ VerifyNormalizeDataset
  \/ VerifyRsa

Spec == Init /\ [][Next]_vars

\* ------------------------------------------- create_verify_hash on its own

(***************************************************************************)
(* A caller of common::create_verify_hash alone: it calls it again and     *)
(* again on datasets given in any insertion order, and may keep an output  *)
(* to compare a later one with.  The hashers of a finished call are left   *)
(* as they were, to be seen by the next call if it looked.                 *)
(***************************************************************************)

\* The target datasets, in every insertion order.
DetDatasets ==
  UNION {Orders(quads) :
           quads \in {some \in SUBSET QuadSet(PlainQuads) :
                        Cardinality(some) <= MaxQuads + 1}}

\* The options datasets, in every insertion order.
DetOptions ==
  UNION {Orders(QuadSet(to_dataset(options))) :
           options \in
             { [created |-> Str("2024-01-01T00:00:00Z"),
                creator |-> Str("https://example.com/#me"),
                domain |-> None, nonce |-> None],
               [created |-> Str("2024-01-01T00:00:00Z"),
                creator |-> Str("https://example.com/#me"),
                domain |-> None, nonce |-> Some(Str("deadbeef12345678"))] }}

\* create_verify_hash is entered, and makes its hashers.
CreateVerifyHash(dataset, options) ==
  /\ pc = "idle"
  /\ LET h == new_hashers(to_be_signed, hasher)
     IN  /\ to_be_signed' = h.to_be_signed
         /\ hasher' = h.hasher
  /\ call' = [NoCall EXCEPT !.op = "create_verify_hash", !.dataset = dataset,
                !.options = options]
  /\ loc' = [NoLocals EXCEPT !.options = options]
  /\ pc' = "verify_hash_options"
  /\ ret' = NoRet
  /\ UNCHANGED << now, signature, kept >>

\* create_verify_hash returns its output, which the caller keeps or drops.
Return ==
  /\ pc = "verify_rsa"
  /\ call.op = "create_verify_hash"
  /\ \/ kept' = [present |-> TRUE, dataset |-> QuadSet(call.dataset),
                 options |-> QuadSet(call.options), output |-> loc.digest]
     \/ UNCHANGED kept
  /\ pc' = "idle"
  /\ call' = NoCall
  /\ loc' = NoLocals
  /\ ret' = NoRet
  /\ UNCHANGED << now, to_be_signed, hasher, signature >>

NextDet ==
  \/ \E dataset \in DetDatasets, options \in DetOptions :
       CreateVerifyHash(dataset, options)
  \/ VerifyHashOptions
  \/ VerifyNormalizeDataset
  \/ Return

SpecDet == Init /\ [][NextDet]_vars

\* ------------------------------------------------------------- properties

\* A sign call has returned Ok, and the Signature is the one now held.
SignReturnedOk == pc = "done" /\ ret.op = "sign" /\ ret.status = "Ok"

\* A verify call has returned.
VerifyReturned == pc = "done" /\ ret.op = "verify"

\* The quads of a dataset with the given predicate.
QuadsOf(ds, p) == {q \in QuadSet(ds) : q.p = IriRef(p)}

\* The verifier is given the dataset that was signed, the options dataset built
\* from the fields of the Signature, and the public half of the signing key.
RoundTripCall ==
  /\ VerifyReturned
  /\ call.dataset = signature.dataset
  /\ call.options = to_dataset(OptionsOf(signature))
  /\ call.key = as_ref(signature.key)
  /\ call.signature_value = signature.signature_value

\* C1: round trip.  When sign has returned a Signature for a dataset, verify
\* called with that dataset, the options dataset built from the Signature's
\* created, creator, domain and nonce, the public key and the signature value
\* returns Ok.
RoundTrip == RoundTripCall => ret.status = "Ok"

\* C1, its case: a Signature with a generated nonce and a timestamp read from
\* the clock has been verified.
RoundTripWitness ==
  /\ RoundTripCall
  /\ ret.status = "Ok"
  /\ signature.nonce.some
  /\ Len(signature.nonce.v) = ENCODED_LEN
  /\ signature.created # Str("2024-01-01T00:00:00Z")
  /\ signature.dataset # << >>

\* SHA256(hex(SHA256(c14n(options))) ++ hex(SHA256(c14n(dataset)))), each
\* digest taken in one piece.
ExpectedHash(options, dataset) ==
  Sha256Digest(HexEncode(Sha256Digest(Normalize(options).bytes))
                 \o HexEncode(Sha256Digest(Normalize(dataset).bytes)))

\* C2: whenever create_verify_hash (either implementation) has computed its
\* output, the output is SHA256 of the lowercase hex of SHA256 of the
\* canonical options document followed, with no separator, by the lowercase
\* hex of SHA256 of the canonical target document alone.
CreateVerifyHashFormula ==
  pc \in {"sign_rsa", "verify_rsa"} =>
    loc.digest = ExpectedHash(loc.options, call.dataset)

\* C2, its case: the verifier has computed the output for a target dataset
\* that is not empty and whose digest is not that of the options dataset.
CreateVerifyHashWitness ==
  /\ pc = "verify_rsa"
  /\ call.dataset # << >>
  /\ Len(call.options) >= 3
  /\ loc.digest = ExpectedHash(call.options, call.dataset)
  /\ HexEncode(Sha256Digest(Normalize(call.options).bytes))
       # HexEncode(Sha256Digest(Normalize(call.dataset).bytes))

\* The output is computed, and an output kept from an earlier call was computed
\* from the same quads.
SameQuadsAsKept ==
  /\ pc = "verify_rsa"
  /\ call.op = "create_verify_hash"
  /\ kept.present
  /\ QuadSet(call.dataset) = kept.dataset
  /\ QuadSet(call.options) = kept.options

\* C3: digest determinism.  Two calls of create_verify_hash whose datasets
\* hold the same quads and whose options datasets hold the same quads give the
\* same output, whatever the insertion orders and whatever was called before.
DigestDeterminism == SameQuadsAsKept => loc.digest = kept.output

\* The lines of a dataset come out of its iterator in canonical order.
InCanonicalOrder(ds) ==
  \A i \in 1..(Len(ds) - 1) : LexLess(NQLine(ds[i]), NQLine(ds[i + 1]))

\* C3, its case: an output equal to the kept one, from datasets of two quads
\* or more that are not iterated in canonical order.
DigestDeterminismWitness ==
  /\ SameQuadsAsKept
  /\ loc.digest = kept.output
  /\ Len(call.dataset) >= 2
  /\ ~InCanonicalOrder(call.dataset)
  /\ ~InCanonicalOrder(call.options)

\* One quad is added to, removed from or altered in the original dataset.
Tampered(original, tampered) ==
  LET d == QuadSet(original)
      e == QuadSet(tampered)
  IN  /\ BackendError \notin e
      /\ d # e
      /\ Cardinality(e \ d) <= 1
      /\ Cardinality(d \ e) <= 1

\* The verifier is given what the round trip gives it, but a tampered dataset.
TamperedCall ==
  /\ VerifyReturned
  /\ Tampered(signature.dataset, call.dataset)
  /\ call.options = to_dataset(OptionsOf(signature))
  /\ call.key = as_ref(signature.key)
  /\ call.signature_value = signature.signature_value

\* C4 as stated: verify of a dataset obtained from the signed one by adding,
\* removing or altering one quad returns Err(Verification).
TamperGivesVerificationError ==
  TamperedCall => (ret.status = "Err" /\ ret.err = "Verification")

\* C4, amended: verify of a tampered dataset never returns Ok, an Options
\* error or a panic; it returns Err(Verification) if the tampered dataset
\* canonicalizes, and Err(Dataset) if it does not (the added or altered quad
\* is one RDFC-1.0 cannot serialize).
TamperNeverVerifies ==
  TamperedCall =>
    /\ ret.status = "Err"
    /\ ret.err = IF Normalize(call.dataset).ok THEN "Verification" ELSE "Dataset"

\* C4, its case: a tampered dataset that canonicalizes was rejected by the
\* RSA check.
TamperWitness ==
  /\ TamperedCall
  /\ Normalize(call.dataset).ok
  /\ signature.dataset # << >>
  /\ ret.err = "Verification"

\* C5: verify derives nothing of its own (no clock read, no random draw, the
\* options dataset hashed is the caller's), and its three errors are disjoint:
\* Err(Options) iff the options dataset does not canonicalize, Err(Dataset) iff
\* it does and the target dataset does not, Err(Verification) iff both do and
\* the RSA check rejects the signature for the digest of the two.
VerifyErrors ==
  VerifyReturned =>
    LET options_ok == Normalize(call.options).ok
        dataset_ok == Normalize(call.dataset).ok
        accepted == rsa_verify(call.key, Pkcs1v15Sign_Sha256,
                               ExpectedHash(call.options, call.dataset),
                               call.signature_value)
    IN  /\ ret.status \in {"Ok", "Err"}
        /\ loc.options = call.options
        /\ loc.clock_reads = 0 /\ loc.draws = << >>
        /\ loc.nonce = None /\ loc.created = None
        /\ (ret.status = "Err" /\ ret.err = "Options") <=> ~options_ok
        /\ (ret.status = "Err" /\ ret.err = "Dataset") <=> (options_ok /\ ~dataset_ok)
        /\ (ret.status = "Err" /\ ret.err = "Verification")
             <=> (options_ok /\ dataset_ok /\ ~accepted)
        /\ ret.status = "Ok" <=> (options_ok /\ dataset_ok /\ accepted)

\* C5, its case: the options dataset canonicalized and the target dataset did
\* not, and verify returned Err(Dataset).
VerifyErrorsWitness ==
  /\ VerifyReturned
  /\ Normalize(call.options).ok
  /\ ~Normalize(call.dataset).ok
  /\ ret.err = "Dataset"

\* The sign call got as far as the RSA primitive, which failed.
SigningFailed ==
  /\ pc = "done"
  /\ ret.op = "sign"
  /\ loc.digest # << >>
  /\ ~sign_with_rng(call.key, Pkcs1v15Sign_Sha256, loc.digest).ok

\* C6 as stated: a failure of the RSA signing primitive is returned to the
\* caller as an error of the sign call, which does not abort.
SigningFailureIsReturned == SigningFailed => ret.status = "Err"

\* C6, what happens: the modulus is too short for the padding, and the sign
\* call panics.
SigningFailurePanics ==
  /\ SigningFailed
  /\ ret.status = "Panic"
  /\ ret.kind = "MessageTooLong"

\* A character of the URL-safe base64 alphabet (no padding character).
IsBase64UrlChar(c) ==
  \/ (65 <= c /\ c <= 90)
  \/ (97 <= c /\ c <= 122)
  \/ (48 <= c /\ c <= 57)
  \/ c = 45
  \/ c = 95

\* C7: nonce resolution in a sign call.  Some(Some(v)) gives v as it is, the
\* empty string included, and draws nothing; Some(None) gives no nonce and
\* draws nothing; unset draws 15 bytes and gives 20 characters of unpadded
\* base64url.
NonceResolution ==
  call.op = "sign" =>
    /\ (call.nonce.set /\ call.nonce.some) =>
         (loc.nonce = Some(call.nonce.v)
            /\ \A i \in 1..Len(loc.draws) : loc.draws[i].what # "nonce")
    /\ (call.nonce.set /\ ~call.nonce.some) =>
         (loc.nonce = None
            /\ \A i \in 1..Len(loc.draws) : loc.draws[i].what # "nonce")
    /\ ~call.nonce.set =>
         /\ loc.nonce.some
         /\ Len(loc.nonce.v) = 20
         /\ \A i \in 1..Len(loc.nonce.v) : IsBase64UrlChar(loc.nonce.v[i])
         /\ Len(loc.draws) >= 1
         /\ loc.draws[1].what = "nonce"
         /\ loc.draws[1].n = 15
         /\ \A i \in 2..Len(loc.draws) : loc.draws[i].what # "nonce"

\* C7, its case: a Signature returned with a generated nonce.
NonceResolutionWitness ==
  /\ SignReturnedOk
  /\ ~call.nonce.set
  /\ signature.nonce.some
  /\ Len(signature.nonce.v) = 20

\* C8: nonce omission.  A Signature signed with nonce = omit has no nonce, the
\* options dataset hashed has no sec:nonce quad, and the digest is the one of
\* the options dataset built by hand from created, creator and domain.  In
\* every Signature, nonce and domain are present iff their quad was hashed,
\* and with the value of that quad.
NonceOmission ==
  SignReturnedOk =>
    /\ call.nonce = NonceOmit =>
         /\ ~signature.nonce.some
         /\ QuadsOf(loc.options, NONCE) = {}
         /\ create_verify_hash(call.dataset,
                               to_dataset([created |-> signature.created,
                                           creator |-> signature.creator,
                                           domain |-> signature.domain,
                                           nonce |-> None]))
              = [ok |-> TRUE, err |-> "", output |-> loc.digest]
    /\ QuadsOf(loc.options, NONCE)
         = IF signature.nonce.some
           THEN {Quad(BnodeId(ID), IriRef(NONCE), StrTerm(signature.nonce.v), NoGraph)}
           ELSE {}
    /\ QuadsOf(loc.options, DOMAIN_IRI)
         = IF signature.domain.some
           THEN {Quad(BnodeId(ID), IriRef(DOMAIN_IRI), StrTerm(signature.domain.v),
                      NoGraph)}
           ELSE {}

\* C8, its case: a Signature signed with nonce = omit and a domain.
NonceOmissionWitness ==
  /\ SignReturnedOk
  /\ call.nonce = NonceOmit
  /\ signature.domain.some
  /\ ~signature.nonce.some

\* to_dataset has returned in the sign call in flight.
OptionsBuilt == call.op = "sign" /\ loc.options # << >>

\* C9: in a sign call, to_dataset returns a timestamp iff created is unset;
\* the clock is read once if created is unset and never if it is supplied;
\* the unwrap of self.created does not panic; and the created of the
\* Signature is the literal of the one dc:created quad hashed.
CreatedResolution ==
  call.op = "sign" =>
    /\ loc.clock_reads <= 1
    /\ call.created.some => loc.clock_reads = 0
    /\ OptionsBuilt =>
         /\ loc.created.some <=> ~call.created.some
         /\ loc.clock_reads = IF call.created.some THEN 0 ELSE 1
    /\ ~(ret.status = "Panic" /\ ret.kind = "created")
    /\ SignReturnedOk =>
         QuadsOf(loc.options, CREATED)
           = {Quad(BnodeId(ID), IriRef(CREATED),
                   LiteralDatatype(signature.created, DATETIME), NoGraph)}

\* C9, its case: a Signature whose created was read from the clock after the
\* clock had moved.
CreatedResolutionWitness ==
  /\ SignReturnedOk
  /\ ~call.created.some
  /\ loc.clock_reads = 1
  /\ signature.created = format_iso8601_time(SystemTime(MaxTime))

\* The shape of an options dataset built from options with the given domain
\* and nonce.
WellFormedOptions(ds, domain, nonce) ==
  /\ \A q \in QuadSet(ds) :
       /\ q.g = NoGraph
       /\ q.s = BnodeId(Str("b0"))
       /\ q.p \in {IriRef(CREATED), IriRef(CREATOR), IriRef(DOMAIN_IRI), IriRef(NONCE)}
  /\ Cardinality(QuadsOf(ds, CREATED)) = 1
  /\ \A q \in QuadsOf(ds, CREATED) : q.o.kind = "literal" /\ q.o.datatype = DATETIME
  /\ Cardinality(QuadsOf(ds, CREATOR)) = 1
  /\ Cardinality(QuadsOf(ds, DOMAIN_IRI)) = IF domain.some THEN 1 ELSE 0
  /\ Cardinality(QuadsOf(ds, NONCE)) = IF nonce.some THEN 1 ELSE 0
  /\ Len(ds) = Cardinality(QuadSet(ds))
  /\ 2 <= Len(ds) /\ Len(ds) <= 4

\* C10: the options dataset the signer builds, and the one built from the
\* fields of a Signature, hold only quads of the default graph with subject
\* _:b0: one dc:created typed xsd:dateTime, one dc:creator, a sec:domain iff
\* there is a domain, a sec:nonce iff there is a nonce, and nothing else.
OptionsDatasetShape ==
  /\ OptionsBuilt => WellFormedOptions(loc.options, call.domain, loc.nonce)
  /\ signature.present =>
       WellFormedOptions(to_dataset(OptionsOf(signature)), signature.domain,
                         signature.nonce)

\* C10, its case: a Signature with a domain and a nonce, hence four quads.
OptionsDatasetShapeWitness ==
  /\ SignReturnedOk
  /\ Len(loc.options) = 4
  /\ Len(to_dataset(OptionsOf(signature))) = 4

\* The step of a call in which the target dataset is canonicalized.
IsDatasetStep(step) == step \in {"dataset_c14n", "dataset_c14n_failed"}

\* C11: within a sign or verify call, canonicalization of the target dataset
\* is the third step, after the options dataset was canonicalized and the hex
\* of its hash written to the accumulator: when it starts, the accumulator
\* holds exactly that hex and the reused hasher is empty.  If the options
\* dataset does not canonicalize, the target dataset is never canonicalized.
OptionsHashedFirst ==
  call.op \in {"sign", "verify"} =>
    /\ \A i \in 1..Len(loc.trace) :
         IsDatasetStep(loc.trace[i]) =>
           /\ i = 3
           /\ loc.trace[1] = "options_c14n"
           /\ loc.trace[2] = "options_hex"
           /\ Normalize(loc.options).ok
    /\ pc \in {"sign_normalize", "verify_normalize"} =>
         /\ loc.trace = << "options_c14n", "options_hex" >>
         /\ to_be_signed
              = Sha256Update(Sha256Default,
                             HexEncode(Sha256Digest(Normalize(loc.options).bytes)))
         /\ hasher = Sha256Default
    /\ (pc = "done" /\ ~Normalize(loc.options).ok) =>
         loc.trace = << "options_c14n_failed" >>

\* C11, its case: a verify call whose target dataset did not canonicalize,
\* after its options dataset had been hashed.
OptionsHashedFirstWitness ==
  /\ VerifyReturned
  /\ loc.trace = << "options_c14n", "options_hex", "dataset_c14n_failed" >>

\* -------------------------------------------------------------------- JSON

\* json_syntax::Value.  An object is the sequence of its entries, which may
\* repeat a key; `s` is the text of a string, `items` the items of an array.
JValue(kind, s, items, entries) ==
  [kind |-> kind, s |-> s, items |-> items, entries |-> entries]
JNull == JValue("null", << >>, << >>, << >>)
JNumber == JValue("number", << >>, << >>, << >>)
JBoolean == JValue("boolean", << >>, << >>, << >>)
JString(s) == JValue("string", s, << >>, << >>)
JArray(items) == JValue("array", << >>, items, << >>)
JObject(entries) == JValue("object", << >>, << >>, entries)
Entry(key, value) == [key |-> key, value |-> value]

\* Option<T> of a value that is not a text.
NoneOf(v) == [some |-> FALSE, v |-> v]
SomeOf(v) == [some |-> TRUE, v |-> v]

\* Iterator::last
Last(seq) == IF seq = << >> THEN NoneOf(Entry(<< >>, JNull)) ELSE SomeOf(seq[Len(seq)])

\* Object::get_entries(key): the entries with the key, in order.
get_entries(object, key) == SelectSeq(object.entries, LAMBDA e : e.key = key)

\* Object::remove(key): every entry with the key is removed; the iterator
\* yields the removed entries in order.
remove(object, key) ==
  [removed |-> SelectSeq(object.entries, LAMBDA e : e.key = key),
   object |-> JObject(SelectSeq(object.entries, LAMBDA e : e.key # key))]

\* Object::push_entry
push_entry(object, entry) == JObject(Append(object.entries, entry))

\* The last entry with the key gets a new value (get_mut(key).last()).
set_last(object, key, value) ==
  LET at == CHOOSE i \in 1..Len(object.entries) :
              /\ object.entries[i].key = key
              /\ \A j \in (i + 1)..Len(object.entries) : object.entries[j].key # key
  IN  JObject([object.entries EXCEPT ![at] = Entry(key, value)])

\* Value::force_as_array: the items of an array, or the value as one item.
force_as_array(value) == IF value.kind = "array" THEN value.items ELSE << value >>

\* The value of a character in the standard base64 alphabet, or -1.
Base64Value(c) ==
  IF 65 <= c /\ c <= 90 THEN c - 65
  ELSE IF 97 <= c /\ c <= 122 THEN (c - 97) + 26
  ELSE IF 48 <= c /\ c <= 57 THEN (c - 48) + 52
  ELSE IF c = 43 THEN 62
  ELSE IF c = 47 THEN 63
  ELSE -1

\* base64::engine::general_purpose::STANDARD.decode: padding is required and
\* the bits left over in the last character must be zero.
Base64Decode(text) ==
  LET n == Len(text)
      pad == IF n >= 2 /\ text[n] = 61 /\ text[n - 1] = 61 THEN 2
             ELSE IF n >= 1 /\ text[n] = 61 THEN 1 ELSE 0
      m == n - pad
      sextet(k) == Base64Value(text[k])
      ok == /\ n % 4 = 0
            /\ \A k \in 1..m : sextet(k) >= 0
            /\ (pad = 0 \/ (pad = 1 /\ m % 4 = 3) \/ (pad = 2 /\ m % 4 = 2))
            /\ (pad = 1 => sextet(m) % 4 = 0)
            /\ (pad = 2 => sextet(m) % 16 = 0)
      byte(j) ==
        LET k == ((8 * j) \div 6) + 1
            off == (8 * j) % 6
            w == (sextet(k) * 64) + sextet(k + 1)
        IN  IF off = 0 THEN (w \div 16) % 256
            ELSE IF off = 2 THEN (w \div 4) % 256
            ELSE w % 256
  IN  IF ok
      THEN [ok |-> TRUE, bytes |-> [j \in 1..((m * 6) \div 8) |-> byte(j - 1)]]
      ELSE [ok |-> FALSE, bytes |-> << >>]

\* --------------------------------------------------- json_ld::parse, part 1

\* Vec::insert(0, c) for each c of the items taken in the given order.
RECURSIVE insert_each_at_front(_, _)
insert_each_at_front(array, items) ==
  IF items = << >> THEN array
  ELSE insert_each_at_front(<< Head(items) >> \o array, Tail(items))

\* slice::iter().rev()
Rev(items) == [i \in 1..Len(items) |-> items[(Len(items) + 1) - i]]

\* The document's context items put in front of the candidate's, had the
\* loop not walked them backwards.
prepend_context_forwards(own, dc) == insert_each_at_front(own, dc)

\* parse, `for c in dc.iter().rev() { array.insert(0, c.clone()) }`
prepend_context(own, dc) == insert_each_at_front(own, Rev(dc))

\* parse, the document-global context injected into a candidate's object.
\* `dce` is the last `@context` entry of the document, if any.
merge_context(object, dce) ==
  IF ~dce.some THEN object
  ELSE LET oc == Last(get_entries(object, Str("@context")))
           dc == force_as_array(dce.v.value)
       IN  IF ~oc.some THEN push_entry(object, dce.v)
           ELSE IF oc.v.value.kind = "array"
           THEN set_last(object, Str("@context"),
                         JArray(prepend_context(oc.v.value.items, dc)))
           ELSE set_last(object, Str("@context"), JArray(Append(dc, oc.v.value)))

\* The type check, had it looked only at a type given as a string.
is_rsa_signature_2017_string_only(ty) ==
  /\ ty.some
  /\ ty.v.value.kind = "string"
  /\ ty.v.value.s = Str("RsaSignature2017")

\* parse, the closure given to map_or on the last removed `type` entry.
is_rsa_signature_2017(ty) ==
  /\ ty.some
  /\ CASE ty.v.value.kind = "string" -> ty.v.value.s = Str("RsaSignature2017")
       [] ty.v.value.kind = "array" ->
            \E i \in 1..Len(ty.v.value.items) :
              /\ ty.v.value.items[i].kind = "string"
              /\ ty.v.value.items[i].s = Str("RsaSignature2017")
       [] OTHER -> FALSE

\* The match on a candidate, had an array of several elements been taken
\* for its first element.
options_object_taking_first(options) ==
  LET Err(e) == [ok |-> FALSE, err |-> e, object |-> JNull, wrapped |-> FALSE]
  IN  CASE options.kind = "object" ->
             [ok |-> TRUE, err |-> "", object |-> options, wrapped |-> FALSE]
        [] options.kind = "array" ->
             IF options.items = << >> THEN Err("MissingSignatureOptions")
             ELSE IF options.items[1].kind = "object"
             THEN [ok |-> TRUE, err |-> "", object |-> options.items[1],
                   wrapped |-> TRUE]
             ELSE Err("BadSignatureOptions")
        [] OTHER -> Err("BadSignatureOptions")

\* parse, the match on a candidate: the object that holds its entries.
options_object(options) ==
  LET Err(e) == [ok |-> FALSE, err |-> e, object |-> JNull, wrapped |-> FALSE]
  IN  CASE options.kind = "object" ->
             [ok |-> TRUE, err |-> "", object |-> options, wrapped |-> FALSE]
        [] options.kind = "array" ->
             IF options.items = << >> THEN Err("MissingSignatureOptions")
             ELSE IF Len(options.items) > 1 THEN Err("DuplicateSignatures")
             ELSE IF options.items[1].kind = "object"
             THEN [ok |-> TRUE, err |-> "", object |-> options.items[1],
                   wrapped |-> TRUE]
             ELSE Err("BadSignatureOptions")
        [] OTHER -> Err("BadSignatureOptions")

NoBytes == << >>

\* A candidate that is rejected with the given error.
RejectedSignature(e) ==
  [ok |-> FALSE, err |-> e, options |-> JNull, id |-> None, signature_value |-> NoBytes]

\* The decoding of signatureValue, had a string that is not base64 been
\* taken as no bytes.
decode_signature_value_leniently(value) ==
  IF value.kind # "string" THEN [ok |-> FALSE, bytes |-> NoBytes]
  ELSE [ok |-> TRUE, bytes |-> Base64Decode(value.s).bytes]

\* parse, `into_string().and_then(|v| STANDARD.decode(v.as_bytes()).ok())`
decode_signature_value(value) ==
  IF value.kind # "string" THEN [ok |-> FALSE, bytes |-> NoBytes]
  ELSE Base64Decode(value.s)

\* parse, the closure mapped over the candidates: one candidate gives a
\* Signature that holds the JSON of its options, or an error.
parse_signature(options, dce) ==
  LET oo == options_object(options)
      merged == merge_context(oo.object, dce)
      ty == remove(merged, Str("type"))
      id == remove(ty.object, Str("id"))
      sv == remove(id.object, Str("signatureValue"))
      id_entry == Last(id.removed)
      value == Last(sv.removed)
      decoded == decode_signature_value(value.v.value)
  IN  IF ~oo.ok THEN RejectedSignature(oo.err)
      ELSE IF ~is_rsa_signature_2017(Last(ty.removed))
      THEN RejectedSignature("UnsupportedType")
      ELSE IF ~value.some THEN RejectedSignature("MissingSignatureOptions")
      ELSE IF ~decoded.ok THEN RejectedSignature("BadSignatureValue")
      ELSE [ok |-> TRUE, err |-> "",
            options |-> IF oo.wrapped THEN JArray(<< sv.object >>) ELSE sv.object,
            id |-> IF id_entry.some /\ id_entry.v.value.kind = "string"
                   THEN Some(id_entry.v.value.s) ELSE None,
            signature_value |-> decoded.bytes]

\* Object::remove, had it removed the key at every depth.
RECURSIVE remove_deep(_, _)
remove_deep(object, key) ==
  LET strip(v) == IF v.kind = "object" THEN remove_deep(v, key).object ELSE v
      kept_entries == SelectSeq(object.entries, LAMBDA e : e.key # key)
  IN  [removed |-> SelectSeq(object.entries, LAMBDA e : e.key = key),
       object |-> JObject([i \in 1..Len(kept_entries) |->
                             Entry(kept_entries[i].key, strip(kept_entries[i].value))])]

\* The entry taken from the document, had it been `signatureValue`.
remove_signature_value(object) == remove(object, Str("signatureValue"))

\* The entry taken from the document, had `signature` been removed at every
\* depth of it.
remove_signature_at_every_depth(object) == remove_deep(object, Str("signature"))

\* parse, `document_object.remove("signature")`
remove_signature(object) == remove(object, Str("signature"))

\* parse, `as_array_mut()` or `slice::from_mut`: the candidates.
candidates_of(signatures) ==
  IF signatures.kind = "array" THEN signatures.items ELSE << signatures >>

\* The candidate whose error is returned, had every candidate been mapped
\* and the last error kept.
last_failure(failed) == CHOOSE i \in failed : \A j \in failed : j <= i

\* parse, `.collect::<Result<_, _>>()?` over the lazy map: the iteration
\* stops at the first candidate that is mapped to an Err.
first_failure(failed) == CHOOSE i \in failed : \A j \in failed : i <= j

\* parse, up to the first await: the document without its signature entry,
\* and the Signatures of the candidates in order, or the first error.
parse_signatures(document) ==
  LET Err(e) == [ok |-> FALSE, err |-> e, document |-> JNull, signatures |-> << >>]
      removed == remove_signature(document)
      signature_entry == Last(removed.removed)
      signatures == candidates_of(signature_entry.v.value)
      dce == Last(get_entries(removed.object, Str("@context")))
      parsed == [i \in 1..Len(signatures) |-> parse_signature(signatures[i], dce)]
      failed == {i \in 1..Len(signatures) : ~parsed[i].ok}
  IN  IF document.kind # "object" THEN Err("MissingSignatureOptions")
      ELSE IF ~signature_entry.some THEN Err("MissingSignatureOptions")
      ELSE IF failed # {}
      THEN Err(parsed[first_failure(failed)].err)
      ELSE [ok |-> TRUE, err |-> "", document |-> removed.object,
            signatures |-> parsed]

\* ------------------------------------------------- json_ld::parse, inputs

\* Texts in ASCII: "AQID", "AQI=" and "AQ==" are the standard base64 of the
\* bytes 1 2 3, 1 2 and 1; "AQI" lacks its padding, "A?ID" has a character
\* that is not of the alphabet, "AR==" has bits set after its last byte.
AQID == << 65, 81, 73, 68 >>
AQI_PAD == << 65, 81, 73, 61 >>
AQ_PAD_PAD == << 65, 81, 61, 61 >>
AQI_UNPADDED == << 65, 81, 73 >>
A_QUERY_ID == << 65, 63, 73, 68 >>
AR_PAD_PAD == << 65, 82, 61, 61 >>

SECURITY_V1 == JString(Str("https://w3id.org/security/v1"))
IDENTITY_V1 == JString(Str("https://w3id.org/identity/v1"))
UNKNOWN_CONTEXT == JString(Str("https://example.com/unknown-context"))

\* The entries every candidate below has besides type, id and signatureValue.
OptionEntries ==
  << Entry(Str("created"), JString(Str("2024-01-01T00:00:00Z"))),
     Entry(Str("creator"), JString(Str("https://example.com/#key"))) >>

TypeEntry(v) == << Entry(Str("type"), v) >>
ValueEntry(v) == << Entry(Str("signatureValue"), v) >>
IdEntry == << Entry(Str("id"), JString(Str("https://example.com/#sig"))) >>
ContextEntry(v) == << Entry(Str("@context"), v) >>

RSA_SIGNATURE_2017 == JString(Str("RsaSignature2017"))

\* Candidates that pass every check of the synchronous part of parse.  The
\* second decodes to other bytes than the first; the third has an id, a
\* context of its own that is a string, and entries that parse leaves alone;
\* the fourth has a context that is an array, and its type in an array.
ValidCandidates ==
  << JObject(TypeEntry(RSA_SIGNATURE_2017) \o OptionEntries \o ValueEntry(JString(AQID))),
     JObject(OptionEntries \o ValueEntry(JString(AQI_PAD)) \o TypeEntry(RSA_SIGNATURE_2017)),
     JObject(ContextEntry(IDENTITY_V1) \o IdEntry \o TypeEntry(RSA_SIGNATURE_2017)
             \o << Entry(Str("@id"), JString(Str("https://example.com/#sig"))),
                   Entry(Str("attachment"),
                         JObject(TypeEntry(JString(Str("Bye")))
                                 \o << Entry(Str("signature"), JString(Str("x"))) >>)) >>
             \o ValueEntry(JString(AQ_PAD_PAD))),
     JObject(ContextEntry(JArray(<< IDENTITY_V1, UNKNOWN_CONTEXT >>))
             \o TypeEntry(JArray(<< JString(Str("Bye")), RSA_SIGNATURE_2017 >>))
             \o OptionEntries \o ValueEntry(JString(<< >>))) >>

\* Candidate objects whose type is not accepted; each has a signatureValue
\* that is good, or one that is bad.
BadTypeCandidates ==
  { JObject(ty \o OptionEntries \o sv) :
      ty \in { << >>, TypeEntry(JString(Str("Bye"))), TypeEntry(JNumber),
               TypeEntry(JArray(<< >>)),
               TypeEntry(JArray(<< JString(Str("Bye")), JNumber >>)),
               TypeEntry(JObject(TypeEntry(RSA_SIGNATURE_2017))) },
      sv \in { ValueEntry(JString(AQID)), << >> } }

\* Candidate objects of the right type whose signatureValue is not accepted:
\* absent, not a string, not padded, not of the alphabet, trailing bits set.
BadValueCandidates ==
  { JObject(TypeEntry(RSA_SIGNATURE_2017) \o OptionEntries \o sv) :
      sv \in { << >>, ValueEntry(JNumber), ValueEntry(JNull),
               ValueEntry(JArray(<< JString(AQID) >>)),
               ValueEntry(JString(AQI_UNPADDED)), ValueEntry(JString(A_QUERY_ID)),
               ValueEntry(JString(AR_PAD_PAD)) } }

\* Candidates that are not an object.
ShapelessCandidates ==
  { JArray(<< >>), JArray(<< ValidCandidates[1], ValidCandidates[2] >>),
    JArray(<< JString(Str("x")) >>), JString(Str("x")), JNumber, JBoolean, JNull }

\* What the top-level `signature` entry may hold: one candidate, an array of
\* candidates, or an array of arrays.
SignatureValues ==
  {ValidCandidates[i] : i \in 1..Len(ValidCandidates)}
    \cup BadTypeCandidates \cup BadValueCandidates
    \cup (ShapelessCandidates \ {JArray(<< ValidCandidates[1], ValidCandidates[2] >>)})
    \cup { JArray(<< >>),
           JArray(<< ValidCandidates[1] >>),
           JArray(<< ValidCandidates[1], ValidCandidates[2] >>),
           JArray(<< ValidCandidates[2], ValidCandidates[1] >>),
           JArray(<< ValidCandidates[3], ValidCandidates[4] >>) }
    \cup { JArray(<< c >>) : c \in ShapelessCandidates }
    \cup { JArray(<< ValidCandidates[1], c >>) :
             c \in { JString(Str("x")), JArray(<< >>) } }
    \cup { JArray(<< JArray(<< ValidCandidates[3] >>), ValidCandidates[1] >>) }
    \cup { JArray(<< b, c >>) :
             b \in { JObject(OptionEntries), JNumber },
             c \in { JObject(TypeEntry(RSA_SIGNATURE_2017) \o OptionEntries) } }

\* The contexts of the document: none, a string, an array.
DocumentContexts ==
  { << >>, ContextEntry(SECURITY_V1),
    ContextEntry(JArray(<< SECURITY_V1, JObject(<< Entry(Str("content"), JString(Str("x"))) >>) >>)) }

\* The content of the document: an entry with a nested `signature` key, and
\* entries named like those that parse removes from a candidate.
ContentEntries ==
  << Entry(Str("type"), JString(Str("Bye"))),
     Entry(Str("content"), JString(Str("Hello, world!"))),
     Entry(Str("attachment"),
           JObject(<< Entry(Str("signature"), ValidCandidates[1]),
                      Entry(Str("content"), JString(Str("Bye"))) >>)),
     Entry(Str("signatureValue"), JString(AQID)) >>

\* The documents given to parse: objects with and without a `signature`
\* entry, at any place among the other entries, and roots of other kinds.
Documents ==
  { JObject(context \o SubSeq(ContentEntries, 1, at)
            \o << Entry(Str("signature"), sv) >>
            \o SubSeq(ContentEntries, at + 1, Len(ContentEntries))) :
      context \in DocumentContexts, sv \in SignatureValues, at \in {1, Len(ContentEntries)} }
    \cup { JObject(context \o ContentEntries) : context \in DocumentContexts }
    \cup { JObject(<< >>), JNull, JNumber, JString(Str("x")),
           JArray(<< JObject(ContentEntries \o << Entry(Str("signature"), ValidCandidates[1]) >>) >>) }

\* ------------------------------------------------ json_ld::parse, part 2

\* JsonLdQuadSource, what JsonLdParser::parse_json gives: quads, an error,
\* or no error and no quads.
QuadsSource(quads) == [kind |-> "Quads", quads |-> quads]
ErrSome == [kind |-> "Err(Some)", quads |-> << >>]
ErrNone == [kind |-> "Err(None)", quads |-> << >>]

\* try_json_ld_qs, had it taken an error as no quads.
try_json_ld_qs_swallowing_errors(qs) ==
  CASE qs.kind = "Quads" -> [ok |-> TRUE, quads |-> qs.quads]
    [] OTHER -> [ok |-> TRUE, quads |-> << >>]

try_json_ld_qs(qs) ==
  CASE qs.kind = "Quads" -> [ok |-> TRUE, quads |-> qs.quads]
    [] qs.kind = "Err(Some)" -> [ok |-> FALSE, quads |-> << >>]
    [] qs.kind = "Err(None)" -> [ok |-> TRUE, quads |-> << >>]

\* Quads that the expansion of an options object may give: of the signature
\* node, of a node nested in it, of a node with an IRI, in a named graph.
O_created ==
  Quad(BnodeId(Str("b0")), IriRef(CREATED),
       LiteralDatatype(Str("2024-01-01T00:00:00Z"), DATETIME), NoGraph)
O_creator ==
  Quad(BnodeId(Str("b0")), IriRef(CREATOR), IriRef(Str("https://example.com/#key")),
       NoGraph)
O_nested ==
  Quad(BnodeId(Str("b1")), IriRef(Str("https://www.w3.org/ns/activitystreams#content")),
       StrTerm(Str("x")), NoGraph)
O_named ==
  Quad(IriRef(Str("https://example.com/#sig")), IriRef(CREATOR),
       IriRef(Str("https://example.com/#key")), NoGraph)
O_in_graph ==
  Quad(BnodeId(Str("b0")), IriRef(CREATOR), IriRef(Str("https://example.com/#key")),
       IriRef(Str("https://example.com/#sig")))

\* The expansion is the work of the JSON-LD processor and of the loader it
\* is given: parse sees any of these outcomes for any input.
DocumentExpansions ==
  { QuadsSource(<< Q_type, Q_content >>), ErrSome, ErrNone }
OptionsExpansions ==
  { QuadsSource(<< O_created, O_creator >>),
    QuadsSource(<< O_creator >>),
    QuadsSource(<< O_created, O_nested >>),
    QuadsSource(<< O_named >>),
    QuadsSource(<< O_created, O_in_graph >>),
    QuadsSource(<< O_in_graph >>),
    ErrSome, ErrNone }

\* CollectibleDataset::from_quad_source on a set dataset.
RECURSIVE from_quad_source(_, _)
from_quad_source(ds, quads) ==
  IF quads = << >> THEN ds
  ELSE from_quad_source(Insert(ds, Head(quads)), Tail(quads))

\* The loop over the quads of an options dataset, had it looked at the first
\* quad only.
RECURSIVE check_first_quad_only(_, _)
check_first_quad_only(quads, signature_subject) ==
  IF quads = << >> THEN TRUE
  ELSE Head(quads).s.kind = "bnode" /\ Head(quads).g = NoGraph

\* parse, the loop over the quads of an options dataset in the order they are
\* iterated: FALSE stands for Err(NestingSignatureNode).
RECURSIVE check_signature_node(_, _)
check_signature_node(quads, signature_subject) ==
  IF quads = << >> THEN TRUE
  ELSE LET s == Head(quads).s
           g == Head(quads).g
       IN  IF signature_subject.some
           THEN IF s # signature_subject.v \/ g # NoGraph THEN FALSE
                ELSE check_signature_node(Tail(quads), signature_subject)
           ELSE IF s.kind # "bnode" \/ g # NoGraph THEN FALSE
           ELSE check_signature_node(Tail(quads), SomeOf(s))

\* The outputs of the futures joined, had each been put after those that
\* completed before it.
set_output_in_completion_order(outputs, i, v) ==
  LET at == CHOOSE k \in 1..Len(outputs) :
              ~outputs[k].some /\ \A j \in 1..(k - 1) : outputs[j].some
  IN  [outputs EXCEPT ![at] = SomeOf(v)]

\* future::try_join_all: the output of the i-th future is the i-th output.
set_output(outputs, i, v) == [outputs EXCEPT ![i] = SomeOf(v)]

NoSignedDocument == [document |-> << >>, signatures |-> << >>]

\* parse returns Err(e).
ParseErr(e) ==
  [op |-> "parse", status |-> "Err", err |-> e, kind |-> "", value |-> NoSignedDocument]

\* The locals of parse when it has built the futures.  `parse_json` holds the
\* inputs that parse_json has been called on: the document first, then the
\* options of each signature; `pending` the futures not yet completed (0 is
\* that of the document), `completed` those that completed, in the order
\* they did, each with what parse_json gave it, `failed` the one that gave
\* an error, if any.
ParseLocals(document, signatures) ==
  [document |-> document,
   signatures |-> signatures,
   parse_json |-> << document >> \o [i \in 1..Len(signatures) |-> signatures[i].options],
   pending |-> 0..Len(signatures),
   completed |-> << >>,
   document_quads |-> << >>,
   outputs |-> [i \in 1..Len(signatures) |-> NoneOf(RejectedSignature(""))],
   document_dataset |-> << >>,
   checked |-> << >>,
   failed |-> << >>]

\* The locals of a call of parse that returned before it built the futures.
NoParseLocals ==
  [document |-> JNull, signatures |-> << >>, parse_json |-> << >>, pending |-> {},
   completed |-> << >>, document_quads |-> << >>, outputs |-> << >>,
   document_dataset |-> << >>, checked |-> << >>, failed |-> << >>]

\* parse, from its entry to the await of try_join: the synchronous part.
Parse(document) ==
  /\ pc = "idle"
  /\ call' = [op |-> "parse", document |-> document]
  /\ LET r == parse_signatures(document)
     IN  IF r.ok
         THEN /\ loc' = ParseLocals(r.document, r.signatures)
              /\ pc' = "parse_join"
              /\ ret' = NoRet
         ELSE /\ loc' = NoParseLocals
              /\ pc' = "done"
              /\ ret' = ParseErr(r.err)
  /\ UNCHANGED << now, to_be_signed, hasher, signature, kept >>

\* document_fut completes.
ExpandDocument(qs) ==
  /\ pc = "parse_join"
  /\ 0 \in loc.pending
  /\ LET r == try_json_ld_qs(qs)
     IN  IF r.ok
         THEN /\ loc' = [loc EXCEPT !.pending = @ \ {0},
                                    !.completed = Append(@, [future |-> 0, qs |-> qs]),
                                    !.document_quads = r.quads]
              /\ UNCHANGED << pc, ret >>
         ELSE /\ pc' = "done"
              /\ ret' = ParseErr("Document")
              /\ loc' = [loc EXCEPT !.failed = << [future |-> 0, qs |-> qs] >>]
  /\ UNCHANGED << now, call, to_be_signed, hasher, signature, kept >>

\* The future of the i-th signature completes.
ExpandOptions(i, qs) ==
  /\ pc = "parse_join"
  /\ i \in loc.pending
  /\ LET r == try_json_ld_qs(qs)
     IN  IF r.ok
         THEN /\ loc' = [loc EXCEPT
                           !.pending = @ \ {i},
                           !.completed = Append(@, [future |-> i, qs |-> qs]),
                           !.outputs = set_output(@, i,
                                         [loc.signatures[i] EXCEPT !.options = r.quads])]
              /\ UNCHANGED << pc, ret >>
         ELSE /\ pc' = "done"
              /\ ret' = ParseErr("Options")
              /\ loc' = [loc EXCEPT !.failed = << [future |-> i, qs |-> qs] >>]
  /\ UNCHANGED << now, call, to_be_signed, hasher, signature, kept >>

\* try_join is ready with every output; the document dataset is collected.
\* The dataset type is the caller's: inserting into it may fail.
CollectDocument(sink_ok) ==
  /\ pc = "parse_join"
  /\ loc.pending = {}
  /\ IF sink_ok
     THEN /\ loc' = [loc EXCEPT !.document_dataset = from_quad_source(<< >>, loc.document_quads)]
          /\ pc' = "parse_check"
          /\ UNCHANGED ret
     ELSE /\ pc' = "done"
          /\ ret' = ParseErr("DocumentDataset")
          /\ UNCHANGED loc
  /\ UNCHANGED << now, call, to_be_signed, hasher, signature, kept >>

\* parse, the closure mapped over the joined signatures, for the next of
\* them: its options dataset is collected, and iterated in some order.
CheckSignature(sink_ok) ==
  /\ pc = "parse_check"
  /\ Len(loc.checked) < Len(loc.outputs)
  /\ LET sig == loc.outputs[Len(loc.checked) + 1].v
         options == from_quad_source(<< >>, sig.options)
     IN  \E order \in Orders(QuadSet(options)) :
           IF ~sink_ok
           THEN /\ pc' = "done"
                /\ ret' = ParseErr("OptionsDataset")
                /\ UNCHANGED loc
           ELSE IF ~check_signature_node(order, NoneOf(NoGraph))
           THEN /\ pc' = "done"
                /\ ret' = ParseErr("NestingSignatureNode")
                /\ loc' = [loc EXCEPT !.checked = Append(@, [sig EXCEPT !.options = order])]
           ELSE /\ loc' = [loc EXCEPT !.checked = Append(@, [sig EXCEPT !.options = order])]
                /\ UNCHANGED << pc, ret >>
  /\ UNCHANGED << now, call, to_be_signed, hasher, signature, kept >>

\* parse returns Ok(SignedDocument { document, signatures }).
ParseReturn ==
  /\ pc = "parse_check"
  /\ Len(loc.checked) = Len(loc.outputs)
  /\ pc' = "done"
  /\ ret' = [op |-> "parse", status |-> "Ok", err |-> "", kind |-> "",
             value |-> [document |-> loc.document_dataset, signatures |-> loc.checked]]
  /\ UNCHANGED << now, call, to_be_signed, hasher, loc, signature, kept >>

NextParse ==
  \/ Forget
  \/ \E document \in Documents : Parse(document)
  \/ \E qs \in DocumentExpansions : ExpandDocument(qs)
  \/ \E i \in 1..2, qs \in OptionsExpansions : ExpandOptions(i, qs)
  \/ \E sink_ok \in BOOLEAN : CollectDocument(sink_ok)
  \/ \E sink_ok \in BOOLEAN : CheckSignature(sink_ok)
  \/ ParseReturn

SpecParse == Init /\ [][NextParse]_vars

\* ------------------------------------------------ properties of parse

\* The value has a top-level entry with the key.
HasEntry(value, key) ==
  value.kind = "object" /\ \E i \in 1..Len(value.entries) : value.entries[i].key = key

ParseCalled == call.op = "parse"
ParseFailedWith(e) == pc = "done" /\ ret.op = "parse" /\ ret.status = "Err" /\ ret.err = e
ParseReturnedOk == pc = "done" /\ ret.op = "parse" /\ ret.status = "Ok"

\* C12: a call of parse on a root object that has no top-level `signature`
\* entry has returned Err(MissingSignatureOptions), and parse_json was called
\* on nothing.
MissingSignatureEntry ==
  (ParseCalled /\ call.document.kind = "object"
     /\ ~HasEntry(call.document, Str("signature"))) =>
    /\ ParseFailedWith("MissingSignatureOptions")
    /\ loc.parse_json = << >>
    /\ loc.pending = {}

\* Such a call on a document that has a context and content, a nested
\* `signature` key in it included.
MissingSignatureEntryWitness ==
  /\ ParseCalled
  /\ call.document.kind = "object"
  /\ ~HasEntry(call.document, Str("signature"))
  /\ HasEntry(call.document, Str("@context"))
  /\ HasEntry(call.document, Str("attachment"))
  /\ ParseFailedWith("MissingSignatureOptions")

\* C13: a call of parse on a root that is not an object returns an error
\* that is not the MissingSignatureOptions returned for an object without a
\* `signature` entry.
NonObjectRootIsDistinguished ==
  (ParseCalled /\ call.document.kind # "object" /\ pc = "done") =>
    /\ ret.status = "Err"
    /\ ret.err # "MissingSignatureOptions"

\* A call on an array root has returned Err(MissingSignatureOptions).
NonObjectRootIsMissingSignatureOptions ==
  /\ ParseCalled
  /\ call.document.kind = "array"
  /\ ParseFailedWith("MissingSignatureOptions")

\* The entries whose key is not one of the keys, in their order.
WithoutKeys(entries, keys) == SelectSeq(entries, LAMBDA e : e.key \notin keys)

\* The candidates of the document of the call in flight, and the object of
\* the i-th of them (a candidate may be an array that holds one object).
Candidates ==
  LET sv == Last(get_entries(call.document, Str("signature"))).v.value
  IN  IF sv.kind = "array" THEN sv.items ELSE << sv >>
CandidateObject(i) ==
  IF Candidates[i].kind = "array" THEN Candidates[i].items[1] ELSE Candidates[i]
\* The object that parse_json is called on for the i-th signature.
ExpandedObject(i) ==
  IF loc.parse_json[i + 1].kind = "array" THEN loc.parse_json[i + 1].items[1]
  ELSE loc.parse_json[i + 1]

\* parse_json has been called in the call in flight.
ExpansionsIssued == ParseCalled /\ loc.parse_json # << >>

\* C14: what parse_json is called on for the document is the document less
\* its top-level `signature` entry, every other entry as it was and where it
\* was, nested `signature` keys included; what it is called on for a
\* signature is the candidate less its `type`, `id` and `signatureValue`
\* entries, every other entry but `@context` as it was.
OnlyNamedEntriesRemoved ==
  ExpansionsIssued =>
    /\ loc.parse_json[1] =
         JObject(WithoutKeys(call.document.entries, {Str("signature")}))
    /\ Len(loc.parse_json) = Len(Candidates) + 1
    /\ \A i \in 1..Len(Candidates) :
         /\ loc.parse_json[i + 1].kind = Candidates[i].kind
         /\ ExpandedObject(i).kind = "object"
         /\ ~HasEntry(ExpandedObject(i), Str("type"))
         /\ ~HasEntry(ExpandedObject(i), Str("id"))
         /\ ~HasEntry(ExpandedObject(i), Str("signatureValue"))
         /\ WithoutKeys(ExpandedObject(i).entries, {Str("@context")}) =
              WithoutKeys(CandidateObject(i).entries,
                          {Str("@context"), Str("type"), Str("id"),
                           Str("signatureValue")})

\* Expansions are issued for a document that has a nested `signature` key
\* and top-level `type` and `signatureValue` entries, and for a candidate
\* that has `@id` and a nested object with `type` and `signature` keys.
OnlyNamedEntriesRemovedWitness ==
  /\ ExpansionsIssued
  /\ HasEntry(call.document, Str("type"))
  /\ HasEntry(call.document, Str("signatureValue"))
  /\ \E i \in 1..Len(call.document.entries) :
       /\ call.document.entries[i].key = Str("attachment")
       /\ HasEntry(call.document.entries[i].value, Str("signature"))
  /\ \E i \in 1..Len(Candidates) :
       /\ HasEntry(CandidateObject(i), Str("id"))
       /\ HasEntry(ExpandedObject(i), Str("@id"))
       /\ \E k \in 1..Len(ExpandedObject(i).entries) :
            /\ ExpandedObject(i).entries[k].key = Str("attachment")
            /\ HasEntry(ExpandedObject(i).entries[k].value, Str("type"))
            /\ HasEntry(ExpandedObject(i).entries[k].value, Str("signature"))

\* The last entry with the key, if any.
LastEntry(object, key) == Last(get_entries(object, key))
\* The items of a context: those of an array, or the scalar as one item.
ContextItems(value) == IF value.kind = "array" THEN value.items ELSE << value >>

\* The context that parse_json gets for the i-th signature is the merge of
\* the document context entry `dce` and of the candidate's own context.
IsMergedContext(i, dce) ==
  LET own == LastEntry(CandidateObject(i), Str("@context"))
      merged == get_entries(ExpandedObject(i), Str("@context"))
      dc == ContextItems(dce.v.value)
      mine == ContextItems(own.v.value)
  IN  IF ~dce.some
      THEN merged = get_entries(CandidateObject(i), Str("@context"))
      ELSE IF ~own.some
      THEN merged = << dce.v >>
      ELSE /\ Len(merged) = 1
           /\ merged[1].value.kind = "array"
           /\ Len(merged[1].value.items) = Len(dc) + Len(mine)
           /\ \A k \in 1..Len(dc) : merged[1].value.items[k] = dc[k]
           /\ \A k \in 1..Len(mine) : merged[1].value.items[Len(dc) + k] = mine[k]

\* C15: the `@context` of each candidate handed to the expansion is the
\* document's context entry as it is if the candidate had none, else an array
\* of the document's context items in order followed by the candidate's own
\* items in order (a scalar is one item); with no document context it is the
\* candidate's own, unchanged.
ContextMerge ==
  ExpansionsIssued =>
    \A i \in 1..Len(Candidates) :
      IsMergedContext(i, LastEntry(call.document, Str("@context")))

\* A document whose context is an array of two items, with a candidate whose
\* own context is a string and a candidate whose own context is an array of
\* two items.
ContextMergeWitness ==
  /\ ExpansionsIssued
  /\ LET dce == LastEntry(call.document, Str("@context"))
     IN  /\ dce.some
         /\ dce.v.value.kind = "array"
         /\ Len(dce.v.value.items) = 2
         /\ \E i, j \in 1..Len(Candidates) :
              /\ LastEntry(CandidateObject(i), Str("@context")).v.value.kind = "string"
              /\ LastEntry(CandidateObject(j), Str("@context")).v.value.kind = "array"
              /\ Len(LastEntry(ExpandedObject(i), Str("@context")).v.value.items) = 3
              /\ Len(LastEntry(ExpandedObject(j), Str("@context")).v.value.items) = 4

\* The value is the string RsaSignature2017, or an array that holds it.
DenotesRsaSignature2017(value) ==
  \/ value = RSA_SIGNATURE_2017
  \/ /\ value.kind = "array"
     /\ \E k \in 1..Len(value.items) : value.items[k] = RSA_SIGNATURE_2017

\* The candidate has the shape parse asks for: an object, or an array of one
\* object.
IsShaped(c) ==
  \/ c.kind = "object"
  \/ c.kind = "array" /\ Len(c.items) = 1 /\ c.items[1].kind = "object"
ObjectOf(c) == IF c.kind = "array" THEN c.items[1] ELSE c

\* The type of the candidate is accepted.
TypeAccepted(c) ==
  /\ HasEntry(ObjectOf(c), Str("type"))
  /\ DenotesRsaSignature2017(LastEntry(ObjectOf(c), Str("type")).v.value)

\* The signatureValue of the candidate is a string of standard base64.
ValueAccepted(c) ==
  /\ HasEntry(ObjectOf(c), Str("signatureValue"))
  /\ LastEntry(ObjectOf(c), Str("signatureValue")).v.value.kind = "string"
  /\ Base64Decode(LastEntry(ObjectOf(c), Str("signatureValue")).v.value.s).ok

\* The candidate passes every check of the synchronous part of parse.
Accepted(c) == IsShaped(c) /\ TypeAccepted(c) /\ ValueAccepted(c)

\* The call in flight was given an object with a `signature` entry whose
\* candidates before the i-th are all accepted, and whose i-th is shaped.
ReachesTypeCheck(i) ==
  /\ ParseCalled
  /\ HasEntry(call.document, Str("signature"))
  /\ i \in 1..Len(Candidates)
  /\ \A j \in 1..(i - 1) : Accepted(Candidates[j])
  /\ IsShaped(Candidates[i])

\* C16: when parse comes to check the type of a candidate, it fails with
\* UnsupportedType if the `type` entry is missing, is another string, is an
\* array without the string RsaSignature2017, or is of another kind; and it
\* does not fail with UnsupportedType at that candidate otherwise.
TypeCheck ==
  \A i \in 1..2 :
    ReachesTypeCheck(i) =>
      IF TypeAccepted(Candidates[i])
      THEN ~ParseFailedWith("UnsupportedType")
             \/ \E j \in (i + 1)..Len(Candidates) :
                  (\A k \in (i + 1)..(j - 1) : Accepted(Candidates[k]))
                    /\ IsShaped(Candidates[j]) /\ ~TypeAccepted(Candidates[j])
      ELSE ParseFailedWith("UnsupportedType")

\* A type that is an array holding RsaSignature2017 was accepted, and parse
\* went on to the expansions.
TypeCheckWitness ==
  /\ ExpansionsIssued
  /\ \E i \in 1..Len(Candidates) :
       /\ LastEntry(CandidateObject(i), Str("type")).v.value.kind = "array"
       /\ TypeAccepted(Candidates[i])

\* A type that is an array without RsaSignature2017 was rejected.
TypeCheckRejectionWitness ==
  /\ ParseFailedWith("UnsupportedType")
  /\ ParseCalled
  /\ LastEntry(ObjectOf(Candidates[1]), Str("type")).v.value.kind = "array"

\* The last `signatureValue` entry of the i-th candidate, if any.
SignatureValueEntry(i) == LastEntry(ObjectOf(Candidates[i]), Str("signatureValue"))

\* C17: when parse comes to the signatureValue of a candidate whose type was
\* accepted, it fails with MissingSignatureOptions if the entry is absent,
\* with BadSignatureValue if it is not a string or not standard base64, and
\* otherwise the signature_value of that signature is the decoded bytes, in
\* the futures, in their outputs and in the SignedDocument returned.
SignatureValueCheck ==
  \A i \in 1..2 :
    (ReachesTypeCheck(i) /\ TypeAccepted(Candidates[i])) =>
      IF ~SignatureValueEntry(i).some
      THEN ParseFailedWith("MissingSignatureOptions")
      ELSE IF ~ValueAccepted(Candidates[i])
      THEN ParseFailedWith("BadSignatureValue")
      ELSE LET bytes == Base64Decode(SignatureValueEntry(i).v.value.s).bytes
           IN  /\ (\A j \in 1..Len(Candidates) : Accepted(Candidates[j])) =>
                    /\ ExpansionsIssued
                    /\ loc.signatures[i].signature_value = bytes
                    /\ loc.outputs[i].some => loc.outputs[i].v.signature_value = bytes
               /\ ParseReturnedOk => ret.value.signatures[i].signature_value = bytes

\* parse returned two signatures: the first from "AQI=", with the bytes 1 2,
\* the second from "AQID", with the bytes 1 2 3.
SignatureValueCheckWitness ==
  /\ ParseReturnedOk
  /\ Len(ret.value.signatures) = 2
  /\ SignatureValueEntry(1).v.value.s = AQI_PAD
  /\ SignatureValueEntry(2).v.value.s = AQID
  /\ ret.value.signatures[1].signature_value = << 1, 2 >>
  /\ ret.value.signatures[2].signature_value = << 1, 2, 3 >>

\* parse rejected a signatureValue that lacks its padding.
SignatureValueRejectionWitness ==
  /\ ParseFailedWith("BadSignatureValue")
  /\ ParseCalled
  /\ SignatureValueEntry(1).v.value.s = AQI_UNPADDED

\* The quads are all of one subject that is a blank node, in no named graph.
OneBlankSubject(quads) ==
  /\ \A q \in quads : q.s.kind = "bnode" /\ q.g = NoGraph
  /\ \A q1, q2 \in quads : q1.s = q2.s

\* The options of the i-th signature as its expansion gave them.
ExpandedOptions(i) == QuadSet(loc.outputs[i].v.options)

\* C18: parse returns Ok only if the expanded options of every signature are
\* quads of one blank-node subject in the default graph; and once the options
\* of a signature that are not so have been iterated, in whatever order,
\* parse has failed with NestingSignatureNode.
NestedNodeRejection ==
  ParseCalled =>
    /\ ParseReturnedOk =>
         \A i \in 1..Len(loc.outputs) :
           /\ OneBlankSubject(ExpandedOptions(i))
           /\ QuadSet(ret.value.signatures[i].options) = ExpandedOptions(i)
    /\ \A i \in 1..Len(loc.checked) :
         ~OneBlankSubject(QuadSet(loc.checked[i].options)) =>
           ParseFailedWith("NestingSignatureNode")

\* parse failed with NestingSignatureNode on options of two subjects that
\* were iterated with the quad of the nested node last.
NestedNodeRejectionWitness ==
  /\ ParseFailedWith("NestingSignatureNode")
  /\ loc.checked # << >>
  /\ loc.checked[Len(loc.checked)].options = << O_created, O_nested >>

\* parse failed with NestingSignatureNode on the same options iterated with
\* the quad of the nested node first.
NestedNodeOtherOrderWitness ==
  /\ ParseFailedWith("NestingSignatureNode")
  /\ loc.checked # << >>
  /\ loc.checked[Len(loc.checked)].options = << O_nested, O_created >>

\* The document of the call has a top-level `signature` entry that holds an
\* array of length 0.
SignatureIsEmptyArray ==
  /\ ParseCalled
  /\ HasEntry(call.document, Str("signature"))
  /\ LastEntry(call.document, Str("signature")).v.value = JArray(<< >>)

\* C19: a call of parse on a document whose top-level `signature` value is
\* an array of length 0 ends with Err(MissingSignatureOptions).
EmptySignatureArrayIsRejected ==
  (SignatureIsEmptyArray /\ pc = "done") =>
    ParseFailedWith("MissingSignatureOptions")

\* Such a call has returned Ok, with a SignedDocument that has the quads of
\* the document and no signature.
EmptySignatureArrayIsAccepted ==
  /\ SignatureIsEmptyArray
  /\ ParseReturnedOk
  /\ ret.value.signatures = << >>
  /\ ret.value.document = << Q_type, Q_content >>
  /\ loc.parse_json = << JObject(WithoutKeys(call.document.entries, {Str("signature")})) >>

\* What parse_json gave the future of the i-th signature, as quads.
GivenTo(i) ==
  LET k == CHOOSE k \in 1..Len(loc.completed) : loc.completed[k].future = i
  IN  QuadSet(try_json_ld_qs(loc.completed[k].qs).quads)

\* The signature is built from the i-th candidate and from the expansion of
\* its options.
BuiltFrom(sig, i) ==
  /\ sig.signature_value = Base64Decode(SignatureValueEntry(i).v.value.s).bytes
  /\ sig.id = IF HasEntry(CandidateObject(i), Str("id"))
              THEN Some(LastEntry(CandidateObject(i), Str("id")).v.value.s)
              ELSE None
  /\ QuadSet(sig.options) = GivenTo(i)

\* The order in which the futures completed.
CompletionOrder == [k \in 1..Len(loc.completed) |-> loc.completed[k].future]

\* C20: the SignedDocument that parse returns has one signature for each
\* element of the `signature` array (one for a single object), the i-th built
\* from the i-th element and from the expansion of its options, whatever the
\* order in which the expansions completed; so has each output of the join.
SignaturesInInputOrder ==
  ParseCalled =>
    /\ \A i \in 1..Len(loc.outputs) :
         loc.outputs[i].some <=> \E k \in 1..Len(loc.completed) : loc.completed[k].future = i
    /\ \A i \in 1..Len(loc.outputs) :
         loc.outputs[i].some => BuiltFrom(loc.outputs[i].v, i)
    /\ ParseReturnedOk =>
         /\ Len(ret.value.signatures) = Len(Candidates)
         /\ \A i \in 1..Len(Candidates) : BuiltFrom(ret.value.signatures[i], i)

\* parse returned two signatures in input order, of other bytes and other
\* options, though the expansion of the second completed first and that of
\* the document last.
SignaturesInInputOrderWitness ==
  /\ ParseReturnedOk
  /\ CompletionOrder = << 2, 1, 0 >>
  /\ ret.value.signatures[1].signature_value = << 1, 2, 3 >>
  /\ ret.value.signatures[2].signature_value = << 1, 2 >>
  /\ QuadSet(ret.value.signatures[1].options) = {O_creator}
  /\ QuadSet(ret.value.signatures[2].options) = {O_created, O_creator}

\* parse returned one signature for a `signature` entry that is one object.
SingleSignatureWitness ==
  /\ ParseReturnedOk
  /\ LastEntry(call.document, Str("signature")).v.value.kind = "object"
  /\ Len(ret.value.signatures) = 1

\* The futures that try_join awaits: 0 is that of the document.
Futures == 0..Len(loc.signatures)
\* The future has completed with what parse_json gave, which was no error.
Succeeded(f) ==
  \E k \in 1..Len(loc.completed) :
    loc.completed[k].future = f /\ loc.completed[k].qs.kind # "Err(Some)"

\* C21: parse awaits the expansion of the document and those of the options
\* together: all are pending when it joins them.  It gets past the join only
\* if every one of them succeeded, and so returns Ok only then; when one gives
\* an error the call ends at once with Document if it is that of the
\* document and with Options if it is that of a signature; and a call that
\* ends with an error returns no document dataset and no signature.
AllOrNothing ==
  ParseCalled =>
    /\ (pc = "parse_join" /\ loc.completed = << >>) => loc.pending = Futures
    /\ (pc = "parse_check" \/ ParseReturnedOk) =>
         /\ \A f \in Futures : Succeeded(f)
         /\ loc.failed = << >>
    /\ ParseFailedWith("Document") <=>
         (loc.failed # << >> /\ loc.failed[1].future = 0)
    /\ ParseFailedWith("Options") <=>
         (loc.failed # << >> /\ loc.failed[1].future \in 1..Len(loc.signatures))
    /\ loc.failed # << >> =>
         /\ loc.failed[1].qs = ErrSome
         /\ loc.failed[1].future \in Futures
         /\ pc = "done"
    /\ (pc = "done" /\ ret.status = "Err") => ret.value = NoSignedDocument

\* The expansion of the options of the second signature gave an error after
\* those of the document and of the first signature had given quads: parse
\* returned Options and nothing else.
AllOrNothingWitness ==
  /\ ParseFailedWith("Options")
  /\ loc.failed[1].future = 2
  /\ CompletionOrder = << 0, 1 >>
  /\ loc.document_quads # << >>
  /\ ret.value = NoSignedDocument

\* The expansion of the document gave an error while those of the options
\* were pending: parse returned Document.
DocumentFailureWitness ==
  /\ ParseFailedWith("Document")
  /\ loc.pending = 0..2

\* The error that the shape of a candidate calls for, "" if none.
ShapeError(c) ==
  IF c.kind = "object" THEN ""
  ELSE IF c.kind # "array" THEN "BadSignatureOptions"
  ELSE IF Len(c.items) = 0 THEN "MissingSignatureOptions"
  ELSE IF Len(c.items) >= 2 THEN "DuplicateSignatures"
  ELSE IF c.items[1].kind # "object" THEN "BadSignatureOptions"
  ELSE ""

\* The call in flight was given an object with a `signature` entry, of
\* which the candidates before the i-th are all accepted.
ReachesCandidate(i) ==
  /\ ParseCalled
  /\ HasEntry(call.document, Str("signature"))
  /\ i \in 1..Len(Candidates)
  /\ \A j \in 1..(i - 1) : Accepted(Candidates[j])

ShapeErrors == {"MissingSignatureOptions", "DuplicateSignatures", "BadSignatureOptions"}

\* C27: a candidate that parse comes to must be an object or an array of one
\* object: an empty array ends the call with MissingSignatureOptions, an
\* array of two or more with DuplicateSignatures, an array of one value that
\* is not an object with BadSignatureOptions, and a string, number, boolean
\* or null with BadSignatureOptions.
CandidateShape ==
  \A i \in 1..2 :
    ReachesCandidate(i) =>
      /\ ShapeError(Candidates[i]) # "" => ParseFailedWith(ShapeError(Candidates[i]))
      /\ (ShapeError(Candidates[i]) = "" /\ i = Len(Candidates)
            /\ TypeAccepted(Candidates[i]) /\ SignatureValueEntry(i).some) =>
           \A e \in ShapeErrors : ~ParseFailedWith(e)

\* The second candidate is an empty array, after a first that was accepted.
CandidateShapeWitness ==
  /\ ReachesCandidate(2)
  /\ Candidates[2] = JArray(<< >>)
  /\ ParseFailedWith("MissingSignatureOptions")

\* A candidate that is an array of two objects, each of which would be
\* accepted alone.
DuplicateSignaturesWitness ==
  /\ ReachesCandidate(1)
  /\ Candidates[1] = JArray(<< ValidCandidates[1], ValidCandidates[2] >>)
  /\ ParseFailedWith("DuplicateSignatures")

\* A candidate that is a boolean.
BooleanCandidateWitness ==
  /\ ReachesCandidate(1)
  /\ Candidates[1] = JBoolean
  /\ ParseFailedWith("BadSignatureOptions")

\* The error of the first check that the candidate fails, the checks taken
\* in the order shape, type, signatureValue; "" if it passes them all.
FirstError(c) ==
  IF ShapeError(c) # "" THEN ShapeError(c)
  ELSE IF ~TypeAccepted(c) THEN "UnsupportedType"
  ELSE IF ~HasEntry(ObjectOf(c), Str("signatureValue")) THEN "MissingSignatureOptions"
  ELSE IF ~ValueAccepted(c) THEN "BadSignatureValue"
  ELSE ""

\* The candidates of the call in flight that fail a check.
Failing == {i \in 1..Len(Candidates) : FirstError(Candidates[i]) # ""}

\* C26: when a candidate fails a check, parse has returned the error of the
\* first check failed by the first such candidate in list order, and has
\* called parse_json on nothing; parse_json is called only when every
\* candidate passed every check.
TerminalOnFirstViolation ==
  (ParseCalled /\ HasEntry(call.document, Str("signature"))) =>
    IF Failing # {}
    THEN /\ ParseFailedWith(
              FirstError(Candidates[CHOOSE i \in Failing : \A j \in Failing : i <= j]))
         /\ loc.parse_json = << >>
         /\ loc.pending = {}
         /\ loc.completed = << >>
    ELSE ExpansionsIssued

\* Two candidates fail, the first by its type and by the absence of its
\* signatureValue, the second by the absence of its signatureValue only:
\* parse returned UnsupportedType.
TerminalOnFirstViolationWitness ==
  /\ ParseCalled
  /\ HasEntry(call.document, Str("signature"))
  /\ Failing = {1, 2}
  /\ FirstError(Candidates[1]) = "UnsupportedType"
  /\ ~HasEntry(ObjectOf(Candidates[1]), Str("signatureValue"))
  /\ FirstError(Candidates[2]) = "MissingSignatureOptions"
  /\ ParseFailedWith("UnsupportedType")

\* ------------------------------- SignedDocument::verify_rsa_signature_2017

\* verify::verify_rsa_signature_2017 as one step: the digest, then the key.
verify_rsa_signature_2017(dataset, options, key, signature_value) ==
  LET to_be_verified == create_verify_hash(dataset, options)
  IN  IF ~to_be_verified.ok
      THEN [ok |-> FALSE,
            err |-> IF to_be_verified.err = "Left" THEN "Dataset" ELSE "Options"]
      ELSE IF rsa_verify(key, Pkcs1v15Sign_Sha256, to_be_verified.output, signature_value)
      THEN [ok |-> TRUE, err |-> ""]
      ELSE [ok |-> FALSE, err |-> "Verification"]

\* The signature that the bytes of a signatureValue are.  The bytes 1 2 3
\* are what TestKey signs for the document of the test with the options
\* created and creator, the bytes 1 2 what it signs for it with the option
\* creator alone; other bytes are what no key has signed.
SignatureOfBytes(bytes) ==
  LET signed(options) ==
        sign_with_rng(TestKey, Pkcs1v15Sign_Sha256,
                      create_verify_hash(<< Q_type, Q_content >>, options).output).signature
  IN  CASE bytes = << 1, 2, 3 >> -> signed(<< O_created, O_creator >>)
        [] bytes = << 1, 2 >> -> signed(<< O_creator >>)
        [] OTHER -> [n |-> 0, em |-> [i \in 1..TestKey.size |-> 0]]

\* The documents a verifier parses: one signature, two, two in the other
\* order, none.
VerifierDocuments ==
  { JObject(ContextEntry(SECURITY_V1) \o ContentEntries
            \o << Entry(Str("signature"), sv) >>) :
      sv \in { ValidCandidates[1],
               JArray(<< ValidCandidates[1], ValidCandidates[2] >>),
               JArray(<< ValidCandidates[2], ValidCandidates[1] >>),
               JArray(<< ValidCandidates[2], ValidCandidates[3] >>),
               JArray(<< >>) } }

\* What the expansions give a verifier.
VerifierDocumentExpansions == { QuadsSource(<< Q_type, Q_content >>), ErrSome }
VerifierOptionsExpansions ==
  { QuadsSource(<< O_created, O_creator >>), QuadsSource(<< O_creator >>),
    QuadsSource(<< BackendError >>) }

\* SignedDocument::verify_rsa_signature_2017 is called on the SignedDocument
\* that parse returned.  `verified` holds the signatures checked so far.
VerifyDocument(key) ==
  /\ pc = "done"
  /\ ret.op = "parse"
  /\ ret.status = "Ok"
  /\ call' = [op |-> "verify_document", document |-> call.document,
              signed |-> ret.value, key |-> key]
  /\ loc' = [verified |-> << >>, failed |-> << >>]
  /\ pc' = "verify_document"
  /\ ret' = NoRet
  /\ UNCHANGED << now, to_be_signed, hasher, signature, kept >>

\* The body of the loop over self.signatures, for the next signature: `?`
\* returns its error.
VerifySignature ==
  /\ pc = "verify_document"
  /\ Len(loc.verified) < Len(call.signed.signatures)
  /\ LET i == Len(loc.verified) + 1
         sig == call.signed.signatures[i]
         r == verify_rsa_signature_2017(call.signed.document, sig.options, call.key,
                                        SignatureOfBytes(sig.signature_value))
         step == [index |-> i, dataset |-> call.signed.document, key |-> call.key,
                  options |-> sig.options, signature_value |-> sig.signature_value]
     IN  IF r.ok
         THEN /\ loc' = [loc EXCEPT !.verified = Append(@, step)]
              /\ UNCHANGED << pc, ret >>
         ELSE /\ loc' = [loc EXCEPT !.failed = << step >>]
              /\ pc' = "done"
              /\ ret' = [op |-> "verify_document", status |-> "Err", err |-> r.err,
                         kind |-> ""]
  /\ UNCHANGED << now, call, to_be_signed, hasher, signature, kept >>

\* The loop is over: Ok(()).
VerifyDocumentReturn ==
  /\ pc = "verify_document"
  /\ Len(loc.verified) = Len(call.signed.signatures)
  /\ pc' = "done"
  /\ ret' = [op |-> "verify_document", status |-> "Ok", err |-> "", kind |-> ""]
  /\ UNCHANGED << now, call, to_be_signed, hasher, loc, signature, kept >>

NextDocument ==
  \/ Forget
  \/ \E document \in VerifierDocuments : Parse(document)
  \/ \E qs \in VerifierDocumentExpansions : ExpandDocument(qs)
  \/ \E i \in 1..2, qs \in VerifierOptionsExpansions : ExpandOptions(i, qs)
  \/ CollectDocument(TRUE)
  \/ CheckSignature(TRUE)
  \/ ParseReturn
  \/ \E key \in VerifyKeyInputs : VerifyDocument(key)
  \/ VerifySignature
  \/ VerifyDocumentReturn

SpecDocument == Init /\ [][NextDocument]_vars

\* The verification of the SignedDocument has returned.
DocumentVerificationReturned == pc = "done" /\ ret.op = "verify_document"

\* The steps of the loop so far, the failed one included.
Steps == loc.verified \o loc.failed

\* C25: the signatures are checked in list order against the document
\* dataset and the key of the call; the error returned is that of the first
\* signature that fails, and none after it is checked; and Ok is returned
\* only when at least one signature was verified by the key.
VerifiesInOrderAndNeverVacuously ==
  call.op = "verify_document" =>
    /\ \A k \in 1..Len(Steps) :
         /\ Steps[k].index = k
         /\ Steps[k].dataset = call.signed.document
         /\ Steps[k].key = call.key
         /\ Steps[k].options = call.signed.signatures[k].options
         /\ Steps[k].signature_value = call.signed.signatures[k].signature_value
    /\ (DocumentVerificationReturned /\ ret.status = "Err") =>
         /\ Len(loc.failed) = 1
         /\ ~verify_rsa_signature_2017(
               call.signed.document, loc.failed[1].options, call.key,
               SignatureOfBytes(loc.failed[1].signature_value)).ok
    /\ (DocumentVerificationReturned /\ ret.status = "Ok") =>
         /\ Len(loc.verified) = Len(call.signed.signatures)
         /\ loc.failed = << >>
         /\ Len(loc.verified) >= 1

\* The same without its last clause: what holds of the loop.
VerifiesInOrder ==
  call.op = "verify_document" =>
    /\ \A k \in 1..Len(Steps) :
         /\ Steps[k].index = k
         /\ Steps[k].dataset = call.signed.document
         /\ Steps[k].key = call.key
         /\ Steps[k].options = call.signed.signatures[k].options
         /\ Steps[k].signature_value = call.signed.signatures[k].signature_value
    /\ (DocumentVerificationReturned /\ ret.status = "Err") =>
         /\ Len(loc.failed) = 1
         /\ ~verify_rsa_signature_2017(
               call.signed.document, loc.failed[1].options, call.key,
               SignatureOfBytes(loc.failed[1].signature_value)).ok
    /\ (DocumentVerificationReturned /\ ret.status = "Ok") =>
         /\ Len(loc.verified) = Len(call.signed.signatures)
         /\ loc.failed = << >>

\* A document with `"signature": []` was parsed, and the verification of
\* the SignedDocument returned Ok with no signature checked, under a key that
\* signed nothing.
VacuousVerification ==
  /\ DocumentVerificationReturned
  /\ ret.status = "Ok"
  /\ LastEntry(call.document, Str("signature")).v.value = JArray(<< >>)
  /\ call.signed.signatures = << >>
  /\ loc.verified = << >>
  /\ call.key = OtherKey

\* The first of two signatures failed, and the second was not checked.
FirstFailureWitness ==
  /\ DocumentVerificationReturned
  /\ ret.status = "Err"
  /\ ret.err = "Verification"
  /\ Len(call.signed.signatures) = 2
  /\ loc.verified = << >>

\* Two signatures were verified.
TwoVerifiedWitness ==
  /\ DocumentVerificationReturned
  /\ ret.status = "Ok"
  /\ Len(loc.verified) = 2

\* ------------------------------------------------- serde::InsertSignature

\* A key as the wrapped value serializes it: a str, bytes, or an integer.
Key(kind, text) == [kind |-> kind, text |-> text]
StrKey(text) == Key("str", text)

\* EqSignature: Ok iff what is serialized is the str or the bytes `signature`.
EqSignature(key) == key.kind \in {"str", "bytes"} /\ key.text = Str("signature")

\* The Signature given to InsertSignature::new, and another that a wrapped
\* value holds of its own.
SIGNATURE == [type |-> "Signature", nonce |-> Str("deadbeef12345678")]
OWN_SIGNATURE == [type |-> "Signature", nonce |-> Str("x")]
\* The integer 42 of the tests.
U32 == [type |-> "u32", nonce |-> << >>]

\* The values of the entries of a wrapped value.
EntryValues == { U32, OWN_SIGNATURE }

\* The entries a wrapped map or struct may have: up to two, with the keys a
\* and signature; a map may also have the bytes `signature` and an integer
\* as keys.
MaxEntries == 2
StructKeys == { StrKey(Str("x")), StrKey(Str("signature")) }
MapKeys == StructKeys \cup { Key("bytes", Str("signature")), Key("u32", Str("signature")) }
EntriesOver(keys) ==
  UNION { [1..n -> [key : keys, value : EntryValues]] : n \in 0..MaxEntries }

\* The calls by which a map hands over its entries: each by serialize_entry,
\* or by serialize_key and then serialize_value.
RECURSIVE MapCalls(_, _)
MapCalls(entries, by_entry) ==
  IF entries = << >> THEN << >>
  ELSE (IF Head(by_entry)
        THEN << [fn |-> "serialize_entry", key |-> Head(entries).key,
                 value |-> Head(entries).value] >>
        ELSE << [fn |-> "serialize_key", key |-> Head(entries).key,
                 value |-> Head(entries).value],
                [fn |-> "serialize_value", key |-> Head(entries).key,
                 value |-> Head(entries).value] >>)
       \o MapCalls(Tail(entries), Tail(by_entry))

\* The calls by which a struct hands over its fields: serialize_field, or
\* skip_field for a field it skips.
StructCalls(entries, skipped) ==
  [i \in 1..Len(entries) |->
     [fn |-> IF skipped[i] THEN "skip_field" ELSE "serialize_field",
      key |-> entries[i].key, value |-> entries[i].value]]

\* The values that InsertSignature wraps: maps that give their length or do
\* not, structs (whose length counts the fields they do not skip), and values
\* that are neither.
WrappedValues ==
  { [form |-> "map", entries |-> entries, len |-> len,
     calls |-> MapCalls(entries, by_entry)] :
      entries \in EntriesOver(MapKeys), len \in {TRUE, FALSE},
      by_entry \in [1..MaxEntries -> BOOLEAN] }
  \cup
  { [form |-> "struct", entries |-> entries, len |-> TRUE,
     calls |-> StructCalls(entries, skipped)] :
      entries \in EntriesOver(StructKeys), skipped \in [1..MaxEntries -> BOOLEAN] }
  \cup
  { [form |-> form, entries |-> << >>, len |-> FALSE, calls |-> << >>] :
      form \in {"u32", "tuple"} }

\* The length that a wrapped value gives to serialize_map or
\* serialize_struct: the number of entries it is going to serialize.
GivenLen(value) ==
  Cardinality({i \in 1..Len(value.calls) :
                 value.calls[i].fn \in {"serialize_entry", "serialize_key",
                                        "serialize_field"}})

\* The inner serializer: the length it was given, the entries it was given,
\* the key it was given last if its value is yet to come, and the fields it
\* was told are skipped.  The wrapper: skip_next_value of SerializeMap, and
\* whether `signature` of SerializeStruct is Some.  `next` is the call of the
\* wrapped value that comes next.
SerdeLocals(declared) ==
  [declared |-> declared, entries |-> << >>, pending_key |-> << >>,
   skipped |-> << >>, skip_next_value |-> FALSE, signature |-> TRUE, next |-> 1]

SerdeRet(status, err) == [op |-> "serialize", status |-> status, err |-> err, kind |-> ""]

\* <InsertSignature as Serialize>::serialize: the wrapped value calls
\* serialize_map or serialize_struct of the wrapper, or a method that gives
\* an error of an invalid type.
Serialize(value) ==
  /\ pc = "idle"
  /\ call' = [op |-> "serialize", value |-> value]
  /\ IF value.form = "map"
     THEN /\ loc' = SerdeLocals(IF value.len THEN Some(GivenLen(value) + 1) ELSE None)
          /\ pc' = "serialize_map"
          /\ ret' = NoRet
     ELSE IF value.form = "struct"
     THEN /\ loc' = SerdeLocals(Some(GivenLen(value) + 1))
          /\ pc' = "serialize_struct"
          /\ ret' = NoRet
     ELSE /\ loc' = SerdeLocals(None)
          /\ pc' = "done"
          /\ ret' = SerdeRet("Err", "invalid type")
  /\ UNCHANGED << now, to_be_signed, hasher, signature, kept >>

\* The call of the wrapped value that comes next.
NextCall == call.value.calls[loc.next]
HasNextCall(state, fn) ==
  /\ pc = state
  /\ loc.next <= Len(call.value.calls)
  /\ NextCall.fn = fn

\* The inner serializer is given a key, and then its value.
inner_serialize_key(self, key) == [self EXCEPT !.pending_key = << key >>]
inner_serialize_value(self, value) ==
  [self EXCEPT !.entries = Append(@, [key |-> self.pending_key, value |-> value]),
               !.pending_key = << >>]
inner_serialize_entry(self, key, value) ==
  [self EXCEPT !.entries = Append(@, [key |-> << key >>, value |-> value])]

\* SerializeMap::serialize_value, had it left skip_next_value as it was.
serialize_value_keeping_flag(self, value) ==
  IF self.skip_next_value THEN self ELSE inner_serialize_value(self, value)

\* SerializeMap::serialize_value
serialize_value(self, value) ==
  IF self.skip_next_value
  THEN [self EXCEPT !.skip_next_value = FALSE]
  ELSE inner_serialize_value(self, value)

\* SerializeMap::serialize_key
SerializeKey ==
  /\ HasNextCall("serialize_map", "serialize_key")
  /\ loc' = [(IF EqSignature(NextCall.key)
              THEN [loc EXCEPT !.skip_next_value = TRUE]
              ELSE inner_serialize_key(loc, NextCall.key))
             EXCEPT !.next = @ + 1]
  /\ UNCHANGED << now, pc, call, to_be_signed, hasher, ret, signature, kept >>

SerializeValue ==
  /\ HasNextCall("serialize_map", "serialize_value")
  /\ loc' = [serialize_value(loc, NextCall.value) EXCEPT !.next = @ + 1]
  /\ UNCHANGED << now, pc, call, to_be_signed, hasher, ret, signature, kept >>

\* SerializeMap::serialize_entry
SerializeEntry ==
  /\ HasNextCall("serialize_map", "serialize_entry")
  /\ loc' = [(IF EqSignature(NextCall.key) THEN loc
              ELSE inner_serialize_entry(loc, NextCall.key, NextCall.value))
             EXCEPT !.next = @ + 1]
  /\ UNCHANGED << now, pc, call, to_be_signed, hasher, ret, signature, kept >>

\* SerializeMap::end
MapEnd ==
  /\ pc = "serialize_map"
  /\ loc.next > Len(call.value.calls)
  /\ loc' = inner_serialize_entry(loc, StrKey(Str("signature")), SIGNATURE)
  /\ pc' = "done"
  /\ ret' = SerdeRet("Ok", "")
  /\ UNCHANGED << now, call, to_be_signed, hasher, signature, kept >>

\* SerializeStruct::serialize_field
SerializeField ==
  /\ HasNextCall("serialize_struct", "serialize_field")
  /\ loc' = [(IF NextCall.key.text = Str("signature") THEN loc
              ELSE inner_serialize_entry(loc, NextCall.key, NextCall.value))
             EXCEPT !.next = @ + 1]
  /\ UNCHANGED << now, pc, call, to_be_signed, hasher, ret, signature, kept >>

\* SerializeStruct::skip_field
SkipField ==
  /\ HasNextCall("serialize_struct", "skip_field")
  /\ loc' = [(IF NextCall.key.text = Str("signature")
              THEN [loc EXCEPT !.signature = FALSE]
              ELSE [loc EXCEPT !.skipped = Append(@, NextCall.key)])
             EXCEPT !.next = @ + 1]
  /\ UNCHANGED << now, pc, call, to_be_signed, hasher, ret, signature, kept >>

\* SerializeStruct::end
StructEnd ==
  /\ pc = "serialize_struct"
  /\ loc.next > Len(call.value.calls)
  /\ loc' = IF loc.signature
            THEN inner_serialize_entry(loc, StrKey(Str("signature")), SIGNATURE)
            ELSE loc
  /\ pc' = "done"
  /\ ret' = SerdeRet("Ok", "")
  /\ UNCHANGED << now, call, to_be_signed, hasher, signature, kept >>

NextSerde ==
  \/ Forget
  \/ \E value \in WrappedValues : Serialize(value)
  \/ SerializeKey
  \/ SerializeValue
  \/ SerializeEntry
  \/ MapEnd
  \/ SerializeField
  \/ SkipField
  \/ StructEnd

SpecSerde == Init /\ [][NextSerde]_vars

\* ------------------------------------------- properties of InsertSignature

\* The key is `signature`, as a str or as bytes.
NamesSignature(key) == key.text = Str("signature") /\ key.kind \in {"str", "bytes"}

\* The entry as the inner serializer holds it.
Emitted(key, value) == [key |-> << key >>, value |-> value]

\* The entries of the wrapped value that are not `signature` entries, as the
\* inner serializer is to hold them.
OtherEntries ==
  LET others == SelectSeq(call.value.entries, LAMBDA e : ~NamesSignature(e.key))
  IN  [i \in 1..Len(others) |-> Emitted(others[i].key, others[i].value)]

SerializeCalled == call.op = "serialize"
SerializeReturned == SerializeCalled /\ pc = "done"

\* C22: for a wrapped map the inner serializer is given, when the wrapper
\* ends, the entries of the map that are not `signature` entries, as they
\* were and in their order, and then one entry `signature` with the given
\* Signature; this whether an entry came through serialize_entry or through
\* serialize_key and serialize_value.  While the map is serialized,
\* skip_next_value is set only when the value that comes next is that of a
\* `signature` key, and what the inner serializer was given so far is the
\* other entries whose calls are over.
MapOutput ==
  (SerializeCalled /\ call.value.form = "map") =>
    /\ SerializeReturned =>
         /\ ret.status = "Ok"
         /\ loc.entries =
              Append(OtherEntries, Emitted(StrKey(Str("signature")), SIGNATURE))
         /\ loc.pending_key = << >>
         /\ ~loc.skip_next_value
    /\ loc.skip_next_value =>
         /\ pc = "serialize_map"
         /\ loc.next <= Len(call.value.calls)
         /\ NextCall.fn = "serialize_value"
         /\ NamesSignature(NextCall.key)
    /\ pc = "serialize_map" =>
         /\ Len(loc.entries) <= Len(OtherEntries)
         /\ \A i \in 1..Len(loc.entries) : loc.entries[i] = OtherEntries[i]

\* A map whose first entry is `signature`, given by serialize_key and
\* serialize_value, and whose second is another entry given in the same way:
\* the inner serializer got the second and then the given Signature.
MapOutputWitness ==
  /\ SerializeReturned
  /\ call.value.form = "map"
  /\ Len(call.value.calls) = 4
  /\ call.value.entries[1] = [key |-> StrKey(Str("signature")), value |-> OWN_SIGNATURE]
  /\ call.value.entries[2] = [key |-> StrKey(Str("x")), value |-> U32]
  /\ loc.entries = << Emitted(StrKey(Str("x")), U32),
                      Emitted(StrKey(Str("signature")), SIGNATURE) >>

\* The entries that the inner serializer holds under the key `signature`.
SignatureEntries ==
  SelectSeq(loc.entries, LAMBDA e : e.key = << StrKey(Str("signature")) >>)

\* C23: for a wrapped struct the inner serializer is given, when the wrapper
\* ends, exactly one field `signature`, and it holds the given Signature.
StructOutput ==
  (SerializeReturned /\ call.value.form = "struct") =>
    /\ ret.status = "Ok"
    /\ SignatureEntries = << Emitted(StrKey(Str("signature")), SIGNATURE) >>

\* The same for the structs that do not skip a field `signature`.
StructOutputUnlessSkipped ==
  (SerializeReturned /\ call.value.form = "struct"
     /\ \A i \in 1..Len(call.value.calls) :
          ~(call.value.calls[i].fn = "skip_field"
              /\ call.value.calls[i].key = StrKey(Str("signature")))) =>
    /\ ret.status = "Ok"
    /\ SignatureEntries = << Emitted(StrKey(Str("signature")), SIGNATURE) >>
    /\ loc.entries[Len(loc.entries)] = Emitted(StrKey(Str("signature")), SIGNATURE)

\* A struct that serializes a field x and skips its field `signature`: the
\* wrapper ended with Ok, and the inner serializer was given x alone.
StructWithoutSignature ==
  /\ SerializeReturned
  /\ call.value.form = "struct"
  /\ ret.status = "Ok"
  /\ Len(call.value.calls) = 2
  /\ call.value.calls[1].fn = "serialize_field"
  /\ call.value.calls[1].key = StrKey(Str("x"))
  /\ call.value.calls[2].fn = "skip_field"
  /\ call.value.calls[2].key = StrKey(Str("signature"))
  /\ loc.entries = << Emitted(StrKey(Str("x")), U32) >>
  /\ SignatureEntries = << >>

\* C30: the length that the wrapper gave the inner serializer, when it gave
\* one, is the number of entries that it has given it when it ends.
DeclaredLength ==
  (SerializeReturned /\ ret.status = "Ok" /\ loc.declared.some) =>
    loc.declared.v = Len(loc.entries)

\* The same for the wrapped values that have no entry `signature` of their
\* own.
DeclaredLengthWithoutOwnSignature ==
  (SerializeReturned /\ ret.status = "Ok" /\ loc.declared.some
     /\ \A i \in 1..Len(call.value.entries) :
          ~NamesSignature(call.value.entries[i].key)) =>
    loc.declared.v = Len(loc.entries)

\* A map whose only entry is `signature`: the wrapper gave the length 2 and
\* then the one entry `signature`.
DeclaredTwoEmittedOne ==
  /\ SerializeReturned
  /\ call.value.form = "map"
  /\ call.value.entries = << [key |-> StrKey(Str("signature")), value |-> OWN_SIGNATURE] >>
  /\ loc.declared.some
  /\ loc.declared.v = 2
  /\ loc.entries = << Emitted(StrKey(Str("signature")), SIGNATURE) >>

(***************************************************************************)
(* The preloaded contexts: json_ld::loader::PreloadedLoader and the        *)
(* command's Loader.  An IRI is an index into the vocabulary; a context    *)
(* body is static data and is one symbol.                                  *)
(***************************************************************************)

\* The vocabulary of a session: the IRIs it has interned.
Vocabulary ==
  << Str("https://w3id.org/identity/v1"),
     Str("http://w3id.org/identity/v1"),
     Str("https://w3id.org/security/v1"),
     Str("http://w3id.org/security/v1"),
     Str("https://w3id.org/security/v2"),
     Str("https://w3id.org/security/v1/"),
     Str("https://www.w3.org/ns/activitystreams"),
     Str("https://example.com/unknown-context") >>

\* The IRIs handed to a loader: those of the vocabulary and one it does not
\* know.
Urls == 1..(Len(Vocabulary) + 1)

\* vocabulary.iri(url)
iri_of(vocabulary, url) ==
  IF url \in 1..Len(vocabulary) THEN Some(vocabulary[url]) ELSE None

IDENTITY_V1_CONTEXT == Str("identity-v1.jsonld")

SECURITY_V1_CONTEXT == Str("security-v1.jsonld")

\* A lookup that knows the https forms only.
preloaded_https_only(vocabulary, url) ==
  LET iri == iri_of(vocabulary, url)
  IN  IF ~iri.some THEN None
      ELSE IF iri.v = Str("https://w3id.org/identity/v1") THEN Some(IDENTITY_V1_CONTEXT)
      ELSE IF iri.v = Str("https://w3id.org/security/v1") THEN Some(SECURITY_V1_CONTEXT)
      ELSE None

\* context::preloaded
preloaded(vocabulary, url) ==
  LET iri == iri_of(vocabulary, url)
  IN  IF ~iri.some THEN None
      ELSE IF \/ iri.v = Str("https://w3id.org/identity/v1")
              \/ iri.v = Str("http://w3id.org/identity/v1")
           THEN Some(IDENTITY_V1_CONTEXT)
      ELSE IF \/ iri.v = Str("https://w3id.org/security/v1")
              \/ iri.v = Str("http://w3id.org/security/v1")
           THEN Some(SECURITY_V1_CONTEXT)
      ELSE None

\* The loads of one loader that the model follows.
MaxLoads == 2

Loaders == {"PreloadedLoader", "Loader"}

\* What the network may answer: a document, or an error.
HttpOutcomes == {"Ok", "Err"}

\* RemoteDocument::new(Some(url), Some("application/ld+json"), document)
RemoteDocument(url, document) ==
  [op |-> "load_with", status |-> "Ok", err |-> "", kind |-> "",
   url |-> url, content_type |-> Str("application/ld+json"), document |-> document]

LoadErr(err, url) ==
  [op |-> "load_with", status |-> "Err", err |-> err, kind |-> "",
   url |-> url, content_type |-> << >>, document |-> << >>]

\* A loader and what has left it for the network: urls are the IRIs it was
\* asked for, requests those given to the ReqwestLoader.
LoaderLocals == [urls |-> << >>, requests |-> << >>]

\* PreloadedLoader::new, Loader::default
NewLoader(loader) ==
  /\ pc = "idle"
  /\ call' = [op |-> "load_with", loader |-> loader, url |-> 0]
  /\ loc' = LoaderLocals
  /\ ret' = NoRet
  /\ pc' = "loader"
  /\ UNCHANGED << now, to_be_signed, hasher, signature, kept >>

\* PreloadedLoader::load_with, and Loader::load_with up to its call of the
\* ReqwestLoader.
LoadWith(url) ==
  /\ pc \in {"loader", "loaded"}
  /\ Len(loc.urls) < MaxLoads
  /\ call' = [call EXCEPT !.url = url]
  /\ LET document == preloaded(Vocabulary, url)
     IN  IF document.some
         THEN /\ ret' = RemoteDocument(url, document.v)
              /\ loc' = [loc EXCEPT !.urls = Append(@, url)]
              /\ pc' = "loaded"
         ELSE IF call.loader = "PreloadedLoader"
         THEN /\ ret' = LoadErr("NotPreloaded", url)
              /\ loc' = [loc EXCEPT !.urls = Append(@, url)]
              /\ pc' = "loaded"
         ELSE /\ ret' = NoRet
              /\ loc' = [loc EXCEPT !.urls = Append(@, url),
                                    !.requests = Append(@, url)]
              /\ pc' = "http"
  /\ UNCHANGED << now, to_be_signed, hasher, signature, kept >>

\* self.http.load_with(vocabulary, url): the answer of the network.
HttpLoadWith(outcome) ==
  /\ pc = "http"
  /\ ret' = IF outcome = "Ok"
            THEN RemoteDocument(call.url, Str("fetched.jsonld"))
            ELSE LoadErr("reqwest", call.url)
  /\ pc' = "loaded"
  /\ UNCHANGED << now, call, to_be_signed, hasher, loc, signature, kept >>

NextLoader ==
  \/ \E loader \in Loaders : NewLoader(loader)
  \/ \E url \in Urls : LoadWith(url)
  \/ \E outcome \in HttpOutcomes : HttpLoadWith(outcome)

SpecLoader == Init /\ [][NextLoader]_vars

\* The four well-known IRIs and the body of each.
WellKnown ==
  { Str("https://w3id.org/identity/v1"), Str("http://w3id.org/identity/v1"),
    Str("https://w3id.org/security/v1"), Str("http://w3id.org/security/v1") }

IsWellKnown(url) ==
  /\ iri_of(Vocabulary, url).some
  /\ iri_of(Vocabulary, url).v \in WellKnown

BodyOf(url) ==
  IF iri_of(Vocabulary, url).v \in
       { Str("https://w3id.org/identity/v1"), Str("http://w3id.org/identity/v1") }
  THEN IDENTITY_V1_CONTEXT
  ELSE SECURITY_V1_CONTEXT

Loaded == pc = "loaded" /\ call.op = "load_with"

LoadedBy(loader) == Loaded /\ call.loader = loader

RECURSIVE OthersOf(_)
OthersOf(urls) ==
  IF urls = << >> THEN << >>
  ELSE IF IsWellKnown(urls[1]) THEN OthersOf(Tail(urls))
  ELSE << urls[1] >> \o OthersOf(Tail(urls))

\* The well-known IRIs get their fixed body, whatever the loader.
FixedBodies ==
  (Loaded /\ IsWellKnown(call.url)) =>
    /\ ret.status = "Ok"
    /\ ret.url = call.url
    /\ ret.document = BodyOf(call.url)

\* C24 as stated: a loader returns the fixed body for exactly the four
\* well-known IRIs, and every other IRI it is asked for is given to the
\* network loader.
FallsThroughToNetwork ==
  /\ FixedBodies
  /\ Loaded => loc.requests = OthersOf(loc.urls)

\* C24: the four well-known IRIs get their fixed body, the same for the http
\* and the https form; for every other IRI the PreloadedLoader returns
\* NotPreloaded and gives nothing to a network loader, and the command's Loader
\* gives the IRI to the network loader and returns its answer.
PreloadedElseNotPreloaded ==
  /\ FixedBodies
  /\ (LoadedBy("PreloadedLoader") /\ ~IsWellKnown(call.url)) =>
       /\ ret.status = "Err"
       /\ ret.err = "NotPreloaded"
       /\ ret.url = call.url
  /\ LoadedBy("PreloadedLoader") => loc.requests = << >>
  /\ (LoadedBy("Loader") /\ ~IsWellKnown(call.url)) =>
       /\ ret.err # "NotPreloaded"
       /\ ret.status = "Ok" => ret.document = Str("fetched.jsonld")
  /\ LoadedBy("Loader") => loc.requests = OthersOf(loc.urls)

\* The PreloadedLoader was asked for an unknown context after the http form
\* of a well-known one.
NotPreloadedWitness ==
  /\ LoadedBy("PreloadedLoader")
  /\ Len(loc.urls) = 2
  /\ iri_of(Vocabulary, loc.urls[1]).v = Str("http://w3id.org/security/v1")
  /\ iri_of(Vocabulary, call.url).some
  /\ iri_of(Vocabulary, call.url).v = Str("https://example.com/unknown-context")
  /\ ret.err = "NotPreloaded"

\* The command's Loader fetched an unknown context.
FetchedWitness ==
  /\ LoadedBy("Loader")
  /\ ~IsWellKnown(call.url)
  /\ ret.status = "Ok"
  /\ loc.requests = << call.url >>

(***************************************************************************)
(* The two implementations of Create Verify Hash: the signer's             *)
(* (signature_options.rs) against the verifier's (common.rs).              *)
(***************************************************************************)

\* common::SignatureOptions with the fields of the signer's options and the
\* created string the signer used.
CommonOptionsOfCall ==
  [created |-> IF call.created.some THEN call.created.v ELSE loc.created.v,
   creator |-> call.creator, domain |-> call.domain, nonce |-> loc.nonce]

SignerHashed == call.op = "sign" /\ pc = "sign_rsa"

SignerFailed ==
  /\ call.op = "sign"
  /\ pc = "done"
  /\ ret.status = "Err"

\* C28: when the signer's create_verify_hash has returned a digest, the
\* verifier's create_verify_hash gives the same digest for the same dataset
\* and the options dataset of the same fields, and the two to_dataset
\* functions build the same quad set; when the signer's fails on the dataset,
\* so does the verifier's.
ImplementationsAgree ==
  /\ SignerHashed =>
       LET common == create_verify_hash(call.dataset, to_dataset(CommonOptionsOfCall))
       IN  /\ common.ok
           /\ common.output = loc.digest
           /\ QuadSet(to_dataset(CommonOptionsOfCall)) = QuadSet(loc.options)
  /\ SignerFailed =>
       LET common == create_verify_hash(call.dataset, to_dataset(CommonOptionsOfCall))
       IN  /\ ~common.ok
           /\ common.err = "Left"
           /\ QuadSet(to_dataset(CommonOptionsOfCall)) = QuadSet(loc.options)

\* The signer hashed a dataset with a supplied created string, a domain and
\* a nonce.
ImplementationsAgreeWitness ==
  /\ SignerHashed
  /\ call.created.some
  /\ call.domain.some
  /\ loc.nonce.some
  /\ call.dataset # << >>
  /\ Cardinality(QuadSet(loc.options)) = 4
  /\ loc.digest = create_verify_hash(call.dataset, to_dataset(CommonOptionsOfCall)).output

\* The signer read the clock for created.
ImplementationsAgreeOnClockWitness ==
  /\ SignerHashed
  /\ ~call.created.some
  /\ loc.created.some

(***************************************************************************)
(* The injected random generator of a sign call.                           *)
(***************************************************************************)

\* Sign calls, and sign calls repeated with the inputs of the one before.
NextAgain ==
  \/ Remember
  \/ (ret.status # "Ok" /\ Forget)
  \/ \E dataset \in DatasetInputs, key \in SignKeyInputs,
        creator \in CreatorInputs, created \in CreatedInputs,
        domain \in DomainInputs, nonce \in NonceInputs, rng \in RngInputs :
       Sign(dataset, key, creator, created, domain, nonce, rng)
  \/ \E created \in CreatedInputs : SignAgain(created)
  \/ SignHashOptions
  \/ SignNormalizeDataset
  \/ SignRsa

SpecAgain == Init /\ [][NextAgain]_vars

SignCalled == call.op = "sign"

\* What the draws of the call were for, in the order they were made.
DrawnFor == [i \in 1..Len(loc.draws) |-> loc.draws[i].what]

RECURSIVE BytesDrawn(_)
BytesDrawn(draws) ==
  IF draws = << >> THEN 0 ELSE draws[1].n + BytesDrawn(Tail(draws))

\* Every draw of a call with an injected generator is from that generator,
\* which has advanced by as much as was drawn: first for the nonce, if it
\* is unset, then for the RSA signing.
DrawsFromInjected ==
  (SignCalled /\ call.rng.some) =>
    /\ \A i \in 1..Len(loc.draws) : loc.draws[i].src = "injected"
    /\ loc.rng.src = "injected"
    /\ loc.rng.seed = call.rng.seed
    /\ loc.rng.pos = BytesDrawn(loc.draws)
    /\ SignReturnedOk =>
         DrawnFor = IF call.nonce.set THEN << "rsa" >> ELSE << "nonce", "rsa" >>

\* A literal or omitted nonce draws nothing for a nonce.
NoDrawForGivenNonce ==
  (SignCalled /\ call.nonce.set) =>
    \A i \in 1..Len(loc.draws) : loc.draws[i].what # "nonce"

\* The call in flight has the inputs and the generator stream of the call
\* that made the Signature the caller holds.
SameInputsAsBefore ==
  /\ SignCalled
  /\ signature.present
  /\ kept.present
  /\ call.rng.some
  /\ call.rng = kept.rng
  /\ call.created = kept.created
  /\ call.nonce = kept.nonce
  /\ call.dataset = signature.dataset
  /\ call.key = signature.key
  /\ call.creator = signature.creator
  /\ call.domain = signature.domain

\* The sign call returns a Signature.
SignReturns == pc = "sign_rsa" /\ pc' = "done" /\ ret'.status = "Ok"

\* C29 as stated: with an injected generator every draw of a sign call is
\* from it, for the nonce (only when unset) and then for the RSA signing, and
\* none from the thread-local generator; a literal or omitted nonce draws
\* nothing for a nonce; and a sign call with the dataset, key, creator,
\* created, domain, nonce setting and generator stream of an earlier one
\* returns an equal Signature.
EqualInputsGiveEqualSignatures ==
  /\ [](DrawsFromInjected /\ NoDrawForGivenNonce)
  /\ [][(SignReturns /\ SameInputsAsBefore) => signature' = signature]_vars

\* C29: the same of the draws; and a sign call with the inputs and generator
\* stream of an earlier one returns an equal Signature when its created
\* string, supplied or read from the clock, is that of the earlier one.
InjectedRngDeterminism ==
  /\ [](DrawsFromInjected /\ NoDrawForGivenNonce)
  /\ [][(SignReturns /\ SameInputsAsBefore /\ signature'.created = signature.created)
          => signature' = signature]_vars

\* A second call with an unset nonce and the injected generator of the first
\* has drawn its nonce and is about to sign.
InjectedRngDeterminismWitness ==
  /\ SameInputsAsBefore
  /\ pc = "sign_rsa"
  /\ ~call.nonce.set
  /\ call.created.some
  /\ call.created.v = signature.created
  /\ loc.nonce = signature.nonce
  /\ DrawnFor = << "nonce" >>

\* A second call with created unset reads the clock later than the first.
LaterClockWitness ==
  /\ SameInputsAsBefore
  /\ pc = "sign_rsa"
  /\ ~call.created.some
  /\ loc.created.some
  /\ loc.created.v # signature.created

\* A call with an injected generator and a literal nonce returned after one
\* draw, for the RSA signing.
LiteralNonceWitness ==
  /\ SignReturnedOk
  /\ call.rng.some
  /\ call.nonce.set
  /\ call.nonce.some
  /\ DrawnFor = << "rsa" >>

====
